---- MODULE Spec2Model ----
(***************************************************************************)
(* A model of the golamv2 crawl engine: the bounded priority frontier with *)
(* spill/refill against the Badger store, the Bloom dedup filter, the      *)
(* crawl workers (processURL), the async dead-link pipeline, the store's   *)
(* cumulative counters and the metrics aggregator.                         *)
(***************************************************************************)
EXTENDS Integers, Sequences, FiniteSets, TLC

\* ------------------------------------------------------------------------
\* Bounds of the model
\* ------------------------------------------------------------------------
NumWorkers == 2
\* capacity of the frontier (MaxQueueSize, scaled down)
maxSize == 5
\* the --depth flag
maxDepth == 2
\* the clock runs over the unix seconds 0..MaxTime
MaxTime == 1
\* number of URLs the dashboard injects over a run
MaxInject == 1
\* number of refill goroutines alive at once
MaxRefills == 2
\* capacity of the dead-link channel (scaled down)
LinkQueueCap == 1
\* dead-link workers started by NewContentExtractor (scaled down)
NumDeadLinkWorkers == 1
\* burst of the token bucket (scaled down)
Burst == 1
\* permits the token bucket gains per second (scaled down)
RateLimit == 1
\* Read calls in which a response body arrives at most
MaxChunks == 3

\* ------------------------------------------------------------------------
\* Program constants
\* ------------------------------------------------------------------------
\* RefillThreshold = 0.2, as tenths
RefillThresholdTenths == 2
\* priority := depth*1000 + unix seconds
DepthWeight == 1000
\* sampleLinks(links, 0.2), as tenths
SamplePercentTenths == 2

Workers == 1..NumWorkers
Refillers == 1..MaxRefills
DeadLinkWorkers == 1..NumDeadLinkWorkers

\* ------------------------------------------------------------------------
\* URLs and the web the crawler runs against
\* ------------------------------------------------------------------------
U(s, h, p) == [scheme |-> s, host |-> h, path |-> p]

NoURL == U("", "", "")
\* the site behind the seed http://a/
Seed == U("http", "a", "/")
A1 == U("http", "a", "/1")
A4 == U("http", "a", "/4")
A9 == U("http", "a", "/9")
D1 == U("http", "d", "/p1")
D2 == U("http", "d", "/p2")
D3 == U("http", "d", "/p3")
D4 == U("http", "d", "/p4")
\* the site behind the seed http://s/
SeedS == U("http", "s", "/")
B1 == U("http", "b", "/1")
C1 == U("http", "c", "/x.pdf")
\* the site behind the seed http://c/, whose robots.txt is answered with 404
SeedC == U("http", "c", "/")
MailTo == U("mailto", "", "bob@x.io")
Ftp == U("ftp", "a", "/f")

AllURLs == {Seed, A1, A4, A9, D1, D2, D3, D4, SeedS, B1, C1, SeedC, MailTo, Ftp}

\* the byte order of the keys "url:<URL>" in the store
KeyOrder == <<Ftp, Seed, A1, A4, A9, B1, SeedC, C1, D1, D2, D3, D4, SeedS, MailTo>>

\* hosts that fail at connection level (DNS/TCP)
DeadHosts == {"b", ""}

\* what the server answers to GET u: "ok" (HTML), "nonhtml", "transport"
GetOutcome(u) ==
    IF u.scheme \notin {"http", "https"} \/ u.host \in DeadHosts THEN "transport"
    ELSE IF u = C1 THEN "nonhtml"
    ELSE "ok"

\* the status fetchURL returns: 0 without a response, else the response's
GetStatus(u) ==
    IF GetOutcome(u) = "transport" THEN 0
    ELSE IF u = C1 THEN 404
    ELSE 200

\* status of HEAD u on a live host
HeadStatus(u) == IF u = D1 THEN 404 ELSE 200

\* the href/src attributes of the page, already resolved against the base
Hrefs(u) ==
    IF u = Seed THEN <<A1, D1, A4, D2, D3, D4, B1, MailTo, A1>>
    ELSE IF u = A1 THEN <<Seed, A9>>
    ELSE IF u = A9 THEN <<C1>>
    ELSE IF u = SeedS THEN <<B1, D1, MailTo, B1>>
    ELSE IF u = SeedC THEN <<C1, D1, D2>>
    ELSE <<>>

\* the matches of the e-mail regex in the page, in order of appearance
EmailMatches(u) ==
    IF u \in {Seed, SeedS} THEN <<"Bob@x.io", "bob@x.io">>
    ELSE IF u = A1 THEN <<"a@x.io", "b@y.io">>
    ELSE <<>>

\* the --keywords list
Keywords == <<"api", "go">>

\* strings.Count(lower(content), lower(keyword)) for the page
KeywordCount(u, k) ==
    IF u \in {Seed, SeedS} /\ k = "api" THEN 2
    ELSE IF u = SeedS /\ k = "go" THEN 1
    ELSE 0

\* GET https://<host>/robots.txt (with the http fallback): whether an answer
\* arrives, its status, and the paths its group for the crawler disallows and
\* the group's Crawl-delay in seconds
RobotsTxt(h) ==
    [reachable |-> h \notin DeadHosts,
     status |-> IF h = "c" THEN 404 ELSE 200,
     disallow |-> IF h = "d" THEN {"/p1", "/p2", "/p3", "/p4"} ELSE {},
     crawlDelay |-> IF h \in {"a", "s"} THEN 1 ELSE 0]

\* ------------------------------------------------------------------------
\* Pure helpers
\* ------------------------------------------------------------------------
ToLower(s) == IF s = "Bob@x.io" THEN "bob@x.io" ELSE s

Range(s) == {s[i] : i \in 1..Len(s)}

RECURSIVE Dedup(_, _)
Dedup(s, seen) ==
    IF s = <<>> THEN <<>>
    ELSE IF Head(s) \in seen THEN Dedup(Tail(s), seen)
    ELSE <<Head(s)>> \o Dedup(Tail(s), seen \cup {Head(s)})

RECURSIVE SelectSeqP(_, _)
SelectSeqP(s, keep) ==
    IF s = <<>> THEN <<>>
    ELSE IF Head(s) \in keep THEN <<Head(s)>> \o SelectSeqP(Tail(s), keep)
    ELSE SelectSeqP(Tail(s), keep)

IsValidURL(u) == u # NoURL /\ u.scheme \in {"http", "https"}

GetDomain(u) == u.host

ExtractEmails(u) == Dedup([i \in 1..Len(EmailMatches(u)) |-> ToLower(EmailMatches(u)[i])], {})

ExtractKeywords(u, kws) ==
    [k \in {x \in Range(kws) : KeywordCount(u, x) > 0} |-> KeywordCount(u, k)]

ExtractLinks(u) == Dedup(SelectSeqP(Hrefs(u), {x \in AllURLs : IsValidURL(x)}), {})

RECURSIVE SumCounts(_)
SumCounts(m) ==
    IF DOMAIN m = {} THEN 0
    ELSE LET k == CHOOSE x \in DOMAIN m : TRUE
         IN m[k] + SumCounts([x \in DOMAIN m \ {k} |-> m[x]])

NoKeywords == [k \in {} |-> 0]

\* ------------------------------------------------------------------------
\* The Bloom filter: a bit set and the bit locations of each URL.  A4 is a
\* false positive once A1 and D1 have been added.
\* ------------------------------------------------------------------------
BloomLocations(u) ==
    IF u = Seed THEN {0, 1}
    ELSE IF u = A1 THEN {2, 3}
    ELSE IF u = D1 THEN {4, 5}
    ELSE IF u = A4 THEN {2, 5}
    ELSE IF u = A9 THEN {6, 7}
    ELSE IF u = D2 THEN {8, 9}
    ELSE IF u = D3 THEN {10, 11}
    ELSE IF u = D4 THEN {12, 13}
    ELSE IF u = SeedS THEN {16, 17}
    ELSE IF u = B1 THEN {20, 21}
    ELSE IF u = C1 THEN {22, 23}
    ELSE {24, 25}

\* An Add that clears the bit set before it sets the bits of its URL
BloomAddLossy(bits, u) == BloomLocations(u)

\* URLBloomFilter.Add
BloomAdd(bits, u) == bits \cup BloomLocations(u)

\* URLBloomFilter.Test
BloomTest(bits, u) == BloomLocations(u) \subseteq bits

\* ------------------------------------------------------------------------
\* container/heap over urlHeap, with 0-based indices as in the Go code
\* ------------------------------------------------------------------------
Less(h, i, j) == h[i + 1].priority < h[j + 1].priority

Swap(h, i, j) == [h EXCEPT ![i + 1] = h[j + 1], ![j + 1] = h[i + 1]]

RECURSIVE up(_, _)
up(h, j) ==
    LET i == IF j = 0 THEN 0 ELSE (j - 1) \div 2
    IN IF i = j \/ ~Less(h, j, i) THEN h ELSE up(Swap(h, i, j), i)

RECURSIVE down(_, _, _)
down(h, i, n) ==
    LET j1 == 2 * i + 1
    IN IF j1 >= n THEN h
       ELSE LET j == IF j1 + 1 < n /\ Less(h, j1 + 1, j1) THEN j1 + 1 ELSE j1
            IN IF ~Less(h, j, i) THEN h ELSE down(Swap(h, i, j), j, n)

heapPush(h, x) == up(Append(h, x), Len(h))

\* A Pop that takes the last item of the slice without the swap and the sift
heapPopLast(h) == [item |-> h[Len(h)], heap |-> SubSeq(h, 1, Len(h) - 1)]

\* A Pop that returns the root and leaves it in the heap
heapPopKeep(h) == [item |-> h[1], heap |-> h]

heapPop(h) ==
    LET n == Len(h) - 1
        h1 == down(Swap(h, 0, n), 0, n)
    IN [item |-> h1[n + 1], heap |-> SubSeq(h1, 1, n)]

\* ------------------------------------------------------------------------
\* fetchURL: the response body
\* ------------------------------------------------------------------------
\* the limit given to io.LimitReader, 2*1024*1024
MaxBodyBytes == 2097152

\* A body is the sequence of the chunks its Read calls deliver, a chunk being
\* n > 0 bytes of one value, and neighbouring chunks differing in value.
Bodies ==
    LET Chunks == [byte : {"a", "b"},
                   n : {1, MaxBodyBytes - 1, MaxBodyBytes, MaxBodyBytes + 1}]
    IN {b \in UNION {[1..k -> Chunks] : k \in 0..MaxChunks} :
          \A i \in 1..(Len(b) - 1) : b[i].byte # b[i + 1].byte}

RECURSIVE BodyLen(_)
\* len(body)
BodyLen(b) == IF b = <<>> THEN 0 ELSE Head(b).n + BodyLen(Tail(b))

RECURSIVE LimitReadAllWholeChunks(_, _)
RECURSIVE LimitReadAll(_, _)
\* A reader that tests the limit before a Read and does not shorten the Read
LimitReadAllWholeChunks(body, limit) ==
    IF body = <<>> \/ limit <= 0 THEN <<>>
    ELSE <<Head(body)>> \o LimitReadAllWholeChunks(Tail(body), limit - Head(body).n)

\* io.ReadAll(io.LimitReader(resp.Body, limit)): LimitedReader.Read returns EOF
\* when N <= 0, else reads at most N bytes and subtracts what it read
LimitReadAll(body, limit) ==
    IF body = <<>> \/ limit <= 0 THEN <<>>
    ELSE LET take == IF Head(body).n > limit THEN limit ELSE Head(body).n
         IN <<[Head(body) EXCEPT !.n = take]>> \o LimitReadAll(Tail(body), limit - take)

\* ------------------------------------------------------------------------
\* PriorityURLQueue
\* ------------------------------------------------------------------------
refillThreshold == (maxSize * RefillThresholdTenths) \div 10

Task(u, d, ts) == [url |-> u, depth |-> d, timestamp |-> ts, retries |-> 0]

NoTask == Task(NoURL, 0, 0)

Priority(task) == task.depth * DepthWeight + task.timestamp

\* A Push without the capacity check
QueuePushUnbounded(h, task) ==
    [err |-> "", heap |-> heapPush(h, [task |-> task, priority |-> Priority(task)])]

\* PriorityURLQueue.Push: the new heap, or the heap unchanged with ErrQueueFull
QueuePush(h, task) ==
    IF Len(h) >= maxSize
    THEN [err |-> "queue is full", heap |-> h]
    ELSE [err |-> "", heap |-> heapPush(h, [task |-> task, priority |-> Priority(task)])]

\* ------------------------------------------------------------------------
\* BadgerStorage
\* ------------------------------------------------------------------------
\* json.Marshal / json.Unmarshal of a URLTask
MarshalTask(task) ==
    [json |-> "URLTask", url |-> task.url, depth |-> task.depth,
     timestamp |-> task.timestamp, retries |-> task.retries]

UnmarshalTask(val) ==
    [url |-> val.url, depth |-> val.depth, timestamp |-> val.timestamp,
     retries |-> val.retries]

\* a stored value that json.Unmarshal rejects
Malformed == [json |-> "malformed"]

\* the key "url:<URL>"
URLKey(u) == [prefix |-> "url:", url |-> u]

\* the key "result:<URL>_<unix seconds>"
ResultKey(u, ts) == [prefix |-> "result:", url |-> u, unix |-> ts]

\* A StoreURL whose key carries the depth of the task
StoreURLPerDepth(db, task) ==
    LET key == [prefix |-> "url:", url |-> task.url, depth |-> task.depth]
    IN [k \in DOMAIN db \cup {key} |-> IF k = key THEN MarshalTask(task) ELSE db[k]]

\* BadgerStorage.StoreURL
StoreURL(db, task) ==
    [k \in DOMAIN db \cup {URLKey(task.url)} |->
        IF k = URLKey(task.url) THEN MarshalTask(task) ELSE db[k]]

\* the keys of db in iteration order
KeysInOrder(db) == SelectSeqP([i \in 1..Len(KeyOrder) |-> URLKey(KeyOrder[i])], DOMAIN db)

\* A GetURLs without the batch delete
GetURLsNoDelete(db, limit) ==
    LET keys == KeysInOrder(db)
        n == IF Len(keys) < limit THEN Len(keys) ELSE limit
    IN [tasks |-> [i \in 1..n |-> UnmarshalTask(db[keys[i]])], db |-> db, err |-> ""]

\* A GetURLs that passes over a value it cannot unmarshal
GetURLsSkipMalformed(db, limit) ==
    LET keys == KeysInOrder(db)
        n == IF Len(keys) < limit THEN Len(keys) ELSE limit
        good == SelectSeqP([i \in 1..n |-> keys[i]],
                           {k \in DOMAIN db : db[k].json = "URLTask"})
        tasks == [i \in 1..Len(good) |-> UnmarshalTask(db[good[i]])]
        gone == {URLKey(tasks[i].url) : i \in 1..Len(good)}
    IN [tasks |-> tasks, db |-> [k \in DOMAIN db \ gone |-> db[k]], err |-> ""]

\* BadgerStorage.GetURLs: the tasks read, the store after deleteURLsBatch, and
\* the error. The first value that json.Unmarshal rejects ends the View with
\* its error: the tasks read before it are returned with the error and
\* nothing is deleted.
GetURLs(db, limit) ==
    LET keys == KeysInOrder(db)
        n == IF Len(keys) < limit THEN Len(keys) ELSE limit
        bad == {i \in 1..n : db[keys[i]].json # "URLTask"}
        m == IF bad = {} THEN n ELSE (CHOOSE i \in bad : \A j \in bad : i <= j) - 1
        tasks == [i \in 1..m |-> UnmarshalTask(db[keys[i]])]
        gone == {URLKey(tasks[i].url) : i \in 1..m}
    IN IF bad = {}
       THEN [tasks |-> tasks, db |-> [k \in DOMAIN db \ gone |-> db[k]], err |-> ""]
       ELSE [tasks |-> tasks, db |-> db, err |-> "invalid character"]

\* BadgerStorage.countURLsInDB
countURLsInDB(db) == Cardinality(DOMAIN db)

NoResult ==
    [url |-> NoURL, statusCode |-> 0, emails |-> <<>>, keywords |-> NoKeywords,
     deadLinks |-> <<>>, deadDomains |-> <<>>, newURLs |-> <<>>,
     processedAt |-> 0, error |-> ""]

ZeroMetrics ==
    [urlsProcessed |-> 0, emailsFound |-> 0, keywordsFound |-> 0,
     linksChecked |-> 0, deadLinksFound |-> 0, deadDomainsFound |-> 0,
     errors |-> 0]

\* BadgerStorage.StoreResult: the write to the findings namespace
StoreResultDB(db, result) ==
    LET key == ResultKey(result.url, result.processedAt)
    IN [k \in DOMAIN db \cup {key} |-> IF k = key THEN result ELSE db[k]]

\* BadgerStorage.StoreResult: the update of the store's cumulative counters
StoreResultMetrics(m, result) ==
    [m EXCEPT
        !.urlsProcessed = @ + 1,
        !.emailsFound = @ + Len(result.emails),
        !.keywordsFound = @ + Cardinality(DOMAIN result.keywords),
        !.deadLinksFound = @ + Len(result.deadLinks),
        !.deadDomainsFound = @ + Len(result.deadDomains),
        !.errors = @ + (IF result.error # "" THEN 1 ELSE 0)]

\* ------------------------------------------------------------------------
\* Command line (cmd/root.go)
\* ------------------------------------------------------------------------
determineCrawlMode(emailMode, domainMode, hasKeywords) ==
    LET n == (IF emailMode THEN 1 ELSE 0) + (IF domainMode THEN 1 ELSE 0)
             + (IF hasKeywords THEN 1 ELSE 0)
    IN IF n > 1 THEN "all"
       ELSE IF emailMode THEN "email"
       ELSE IF domainMode THEN "domains"
       ELSE "keywords"

\* the --url flag
StartURLs == {Seed, SeedS, C1, SeedC}

\* ------------------------------------------------------------------------
\* State
\* ------------------------------------------------------------------------
VARIABLES
    config,          \* --url, --workers and CrawlerService.mode, .keywords,
                     \* .checkDeadDomains
    now,             \* time.Now().Unix()
    cancelled,       \* ctx.Done() of the crawl context
    tokens,          \* permits in CrawlerService.rateLimiter
    heap,            \* PriorityURLQueue.heap
    refilling,       \* PriorityURLQueue.refilling
    refillers,       \* the goroutines started by `go q.refillFromDB()`
    bloom,           \* URLBloomFilter.filter
    bloomAdded,      \* the URLs for which URLBloomFilter.Add has returned
    urlDB,           \* BadgerStorage.urlDB (backlog)
    resultsDB,       \* BadgerStorage.resultsDB (findings)
    smetrics,        \* BadgerStorage.metrics
    storeCalls,      \* StoreResult calls that returned nil so far
    metrics,         \* MetricsCollector.metrics
    robotsCache,     \* RobotsChecker.cache
    wpc,             \* position of each crawl worker
    wlocal,          \* locals of worker / processURL / addNewURLs
    wtrace,          \* what processURL did for the task last popped (slept: the
                     \* seconds of time.Sleep between the robots check and the GET)
    pops,            \* Pop calls that returned a task so far
    linkQueue,       \* ContentExtractor.linkQueue
    dlpc,            \* position of each dead-link worker
    dlreq,           \* the request a dead-link worker holds
    deadLinkCache,   \* ContentExtractor.deadLinkCache
    deadDomainCache, \* ContentExtractor.deadDomainCache
    injected,        \* URLs posted to /api/add-urls so far
    mainpc,          \* position of runCrawler
    storeClosed,     \* BadgerStorage.Close has run
    extractorClosed, \* ContentExtractor.Close has cancelled e.ctx and closed linkQueue
    lateStores,      \* StoreResult calls made after BadgerStorage.Close
    window,          \* permits refilled and permits granted in the current second
    ret              \* what the last direct call of a queue or store method returned

envVars == <<config, now, cancelled, tokens>>
queueVars == <<heap, refilling, refillers>>
bloomVars == <<bloom, bloomAdded>>
storeVars == <<urlDB, resultsDB, smetrics, storeCalls>>
workerVars == <<wpc, wlocal, wtrace, pops>>
deadLinkVars == <<linkQueue, dlpc, dlreq, deadLinkCache, deadDomainCache>>
lifeVars == <<mainpc, storeClosed, extractorClosed, lateStores>>

vars ==
    <<envVars, queueVars, bloomVars, storeVars, metrics, robotsCache, workerVars,
      deadLinkVars, injected, lifeVars, window, ret>>

EmptyMap == [k \in {} |-> 0]

NoLocal == [task |-> NoTask, result |-> NoResult, links |-> <<>>, new |-> <<>>,
            spill |-> NoTask]

NoTrace == [url |-> NoURL, gets |-> 0, permits |-> 0, slept |-> 0, stored |-> <<>>,
            bumps |-> 0]

NoRefiller == [pc |-> "none", needed |-> 0, urls |-> <<>>]

NoRequest == [url |-> NoURL, sourceURL |-> NoURL]

NoWindow == [refills |-> 0, permits |-> 0]

NoReturn == [op |-> "", err |-> "", tasks |-> <<>>, before |-> <<>>]

\* NewInfrastructure, NewCrawlerService and StartCrawling up to the start of
\* the worker pool: the seed is pushed and added to the Bloom filter.
InitOpened(db) ==
    /\ \E e \in BOOLEAN, d \in BOOLEAN, k \in BOOLEAN, s \in StartURLs,
          n \in 1..NumWorkers :
          /\ e \/ d \/ k
          /\ config = [startURL |-> s,
                       workers |-> n,
                       mode |-> determineCrawlMode(e, d, k),
                       keywords |-> IF k THEN Keywords ELSE <<>>,
                       checkDeadDomains |-> d]
    /\ now = 0
    /\ cancelled = FALSE
    /\ tokens = Burst
    /\ heap = QueuePush(<<>>, Task(config.startURL, 0, 0)).heap
    /\ refilling = FALSE
    /\ refillers = [r \in Refillers |-> NoRefiller]
    /\ bloom = BloomAdd({}, config.startURL)
    /\ bloomAdded = {config.startURL}
    /\ urlDB = db
    /\ resultsDB = EmptyMap
    /\ smetrics = ZeroMetrics
    /\ storeCalls = 0
    /\ metrics = ZeroMetrics
    /\ robotsCache = EmptyMap
    /\ wpc = [w \in Workers |-> IF w <= config.workers THEN "loop" ELSE "none"]
    /\ wlocal = [w \in Workers |-> NoLocal]
    /\ wtrace = [w \in Workers |-> NoTrace]
    /\ pops = 0
    /\ linkQueue = <<>>
    /\ dlpc = [d \in DeadLinkWorkers |-> "idle"]
    /\ dlreq = [d \in DeadLinkWorkers |-> NoRequest]
    /\ deadLinkCache = EmptyMap
    /\ deadDomainCache = EmptyMap
    /\ injected = 0
    /\ mainpc = "crawl"
    /\ storeClosed = FALSE
    /\ extractorClosed = FALSE
    /\ lateStores = 0
    /\ window = NoWindow

\* the program started on a fresh data directory
InitProgram == InitOpened(EmptyMap)

\* the program started by runCrawler; no method has been called directly
Init == InitProgram /\ ret = NoReturn

\* ------------------------------------------------------------------------
\* RobotsChecker
\* ------------------------------------------------------------------------
NilRobots == [nil |-> TRUE, disallow |-> {}, crawlDelay |-> 0]

\* RobotsChecker.getRobots: the cached entry, or the outcome of the fetch
getRobots(cache, h) ==
    IF h \in DOMAIN cache THEN cache[h]
    ELSE IF ~RobotsTxt(h).reachable THEN NilRobots
    ELSE IF RobotsTxt(h).status # 200 THEN NilRobots
    ELSE [nil |-> FALSE, disallow |-> RobotsTxt(h).disallow,
          crawlDelay |-> RobotsTxt(h).crawlDelay]

\* cacheRobots keeping no entry for a host without usable robots.txt
cacheRobotsSkipNil(cache, h, robots) ==
    IF robots.nil THEN cache
    ELSE [k \in DOMAIN cache \cup {h} |-> IF k = h THEN robots ELSE cache[k]]

\* RobotsChecker.cacheRobots
cacheRobots(cache, h, robots) ==
    [k \in DOMAIN cache \cup {h} |-> IF k = h THEN robots ELSE cache[k]]

\* RobotsChecker.CanFetch
CanFetch(cache, u) ==
    LET robots == getRobots(cache, u.host)
    IN IF robots.nil THEN TRUE ELSE u.path \notin robots.disallow

\* RobotsChecker.GetCrawlDelay, in seconds
GetCrawlDelay(cache, h) ==
    LET robots == getRobots(cache, h)
    IN IF robots.nil THEN 0 ELSE robots.crawlDelay

\* ------------------------------------------------------------------------
\* Crawl workers: CrawlerService.worker and processURL
\* ------------------------------------------------------------------------
SetLocal(w, l) == wlocal' = [wlocal EXCEPT ![w] = l]
SetPc(w, pc) == wpc' = [wpc EXCEPT ![w] = pc]

\* worker: ctx.Done() is ready at the head of the loop
WorkerExit(w) ==
    /\ wpc[w] = "loop"
    /\ cancelled
    /\ SetPc(w, "exited")
    /\ UNCHANGED <<envVars, queueVars, bloomVars, storeVars, metrics, robotsCache,
                   wlocal, wtrace, pops, deadLinkVars, injected, lifeVars,
                   window, ret>>

\* the slots free for the goroutine a Pop starts
FreeRefillers == {r \in Refillers : refillers[r].pc = "none"}

\* Pop starting a refill whatever number of items it leaves
NeedsRefillAnySize(len) == ~refilling

\* PriorityURLQueue.Pop: whether the pop that leaves `len` items starts a refill
NeedsRefill(len) == len < refillThreshold /\ ~refilling

\* worker: Pop returns a task; processURL starts with the result record
PopTask(w) ==
    /\ wpc[w] = "loop"
    /\ ~cancelled
    /\ Len(heap) > 0
    /\ LET r == heapPop(heap)
           spawn == NeedsRefill(Len(r.heap))
       IN /\ spawn => FreeRefillers # {}
          /\ heap' = r.heap
          /\ refillers' =
                IF spawn
                THEN [refillers EXCEPT
                        ![CHOOSE x \in FreeRefillers : \A y \in FreeRefillers : x <= y].pc = "start"]
                ELSE refillers
          /\ SetLocal(w, [NoLocal EXCEPT
                            !.task = r.item.task,
                            !.result = [NoResult EXCEPT !.url = r.item.task.url,
                                                        !.processedAt = now]])
          /\ wtrace' = [wtrace EXCEPT ![w] = [NoTrace EXCEPT !.url = r.item.task.url]]
    /\ pops' = pops + 1
    /\ SetPc(w, "robots")
    /\ UNCHANGED <<envVars, refilling, bloomVars, storeVars, metrics, robotsCache,
                   deadLinkVars, injected, lifeVars,
                   window, ret>>

\* worker: Pop returns ErrQueueEmpty; the worker sleeps 10 ms and loops
PopEmpty(w) ==
    /\ wpc[w] = "loop"
    /\ ~cancelled
    /\ Len(heap) = 0
    /\ UNCHANGED vars

\* A robots check whose answer is not acted on
CheckRobotsIgnored(w) ==
    /\ wpc[w] = "robots"
    /\ LET u == wlocal[w].task.url
       IN robotsCache' = cacheRobots(robotsCache, u.host, getRobots(robotsCache, u.host))
    /\ SetPc(w, "rate")
    /\ UNCHANGED <<envVars, queueVars, bloomVars, storeVars, metrics, wlocal, wtrace,
                   pops, deadLinkVars, injected, lifeVars,
                   window, ret>>

\* processURL: the robots check
CheckRobots(w) ==
    /\ wpc[w] = "robots"
    /\ LET u == wlocal[w].task.url
       IN /\ robotsCache' = cacheRobots(robotsCache, u.host, getRobots(robotsCache, u.host))
          /\ IF ~CanFetch(robotsCache, u)
             THEN /\ SetLocal(w, [wlocal[w] EXCEPT !.result.error = "blocked by robots.txt"])
                  /\ SetPc(w, "finalize")
             ELSE /\ SetPc(w, "rate")
                  /\ UNCHANGED wlocal
    /\ UNCHANGED <<envVars, queueVars, bloomVars, storeVars, metrics, wtrace, pops,
                   deadLinkVars, injected, lifeVars,
                   window, ret>>

\* getRobots: the read-locked lookup misses and the GET of robots.txt begins;
\* no lock is held while it is in flight
RobotsLookup(w) ==
    /\ wpc[w] = "robots"
    /\ wlocal[w].task.url.host \notin DOMAIN robotsCache
    /\ SetPc(w, "robotsFetch")
    /\ UNCHANGED <<envVars, queueVars, bloomVars, storeVars, metrics, robotsCache,
                   wlocal, wtrace, pops, deadLinkVars, injected, lifeVars, window, ret>>

\* processURL: the robots check answered from the cache
RobotsCached(w) ==
    /\ wlocal[w].task.url.host \in DOMAIN robotsCache
    /\ CheckRobots(w)

\* getRobots: the GET of robots.txt is over, its outcome is cached and
\* CanFetch answers from it
RobotsFetched(w) ==
    /\ wpc[w] = "robotsFetch"
    /\ LET u == wlocal[w].task.url
           cache == cacheRobots(robotsCache, u.host, getRobots(EmptyMap, u.host))
       IN /\ robotsCache' = cache
          /\ IF ~CanFetch(cache, u)
             THEN /\ SetLocal(w, [wlocal[w] EXCEPT !.result.error = "blocked by robots.txt"])
                  /\ SetPc(w, "finalize")
             ELSE /\ SetPc(w, "rate")
                  /\ UNCHANGED wlocal
    /\ UNCHANGED <<envVars, queueVars, bloomVars, storeVars, metrics, wtrace, pops,
                   deadLinkVars, injected, lifeVars,
                   window, ret>>

\* A Wait that returns without taking a permit
RateWaitFree(w) ==
    /\ wpc[w] = "rate"
    /\ ~cancelled
    /\ window' = [window EXCEPT !.permits = @ + 1]
    /\ wtrace' = [wtrace EXCEPT ![w].permits = @ + 1]
    /\ SetPc(w, "fetch")
    /\ UNCHANGED <<envVars, queueVars, bloomVars, storeVars, metrics, robotsCache,
                   wlocal, pops, deadLinkVars, injected, lifeVars, ret>>

\* processURL: rateLimiter.Wait(ctx) returns with a permit
RateWaitPermit(w) ==
    /\ wpc[w] = "rate"
    /\ ~cancelled
    /\ tokens > 0
    /\ tokens' = tokens - 1
    /\ window' = [window EXCEPT !.permits = @ + 1]
    /\ wtrace' = [wtrace EXCEPT ![w].permits = @ + 1]
    /\ SetPc(w, "fetch")
    /\ UNCHANGED <<config, now, cancelled, queueVars, bloomVars, storeVars, metrics,
                   robotsCache, wlocal, pops, deadLinkVars, injected, lifeVars, ret>>

\* A failed Wait that is counted by UpdateErrors(1) like a failed fetch
RateWaitCancelledCounted(w) ==
    /\ wpc[w] = "rate"
    /\ cancelled
    /\ SetLocal(w, [wlocal[w] EXCEPT !.result.error = "rate limit context cancelled"])
    /\ metrics' = [metrics EXCEPT !.errors = @ + 1]
    /\ SetPc(w, "finalize")
    /\ UNCHANGED <<envVars, queueVars, bloomVars, storeVars, robotsCache,
                   wtrace, pops, deadLinkVars, injected, lifeVars,
                   window, ret>>

\* processURL: rateLimiter.Wait(ctx) fails because the context is done
RateWaitCancelled(w) ==
    /\ wpc[w] = "rate"
    /\ cancelled
    /\ SetLocal(w, [wlocal[w] EXCEPT !.result.error = "rate limit context cancelled"])
    /\ SetPc(w, "finalize")
    /\ UNCHANGED <<envVars, queueVars, bloomVars, storeVars, metrics, robotsCache,
                   wtrace, pops, deadLinkVars, injected, lifeVars,
                   window, ret>>

\* fetchURL: the error it returns for the URL ("" for an HTML response)
FetchError(u) ==
    IF GetOutcome(u) = "transport" THEN "Get: dial tcp: no such host"
    ELSE IF GetOutcome(u) = "nonhtml" THEN "skipped non-HTML content: application/pdf"
    ELSE ""

\* An error branch that records no status code
FetchFailedNoStatus(w) ==
    /\ wpc[w] = "fetch"
    /\ FetchError(wlocal[w].task.url) # ""
    /\ wtrace' = [wtrace EXCEPT ![w].gets = @ + 1]
    /\ SetLocal(w, [wlocal[w] EXCEPT !.result.error = FetchError(wlocal[w].task.url)])
    /\ metrics' = [metrics EXCEPT !.errors = @ + 1]
    /\ SetPc(w, "finalize")
    /\ UNCHANGED <<envVars, queueVars, bloomVars, storeVars, robotsCache, pops,
                   deadLinkVars, injected, lifeVars,
                   window, ret>>

\* An error branch that pushes the task back with one more retry
FetchFailedRetry(w) ==
    /\ wpc[w] = "fetch"
    /\ FetchError(wlocal[w].task.url) # ""
    /\ wtrace' = [wtrace EXCEPT ![w].gets = @ + 1]
    /\ SetLocal(w, [wlocal[w] EXCEPT
                      !.result.statusCode = GetStatus(wlocal[w].task.url),
                      !.result.error = FetchError(wlocal[w].task.url)])
    /\ metrics' = [metrics EXCEPT !.errors = @ + 1]
    /\ heap' = QueuePush(heap, [wlocal[w].task EXCEPT !.retries = @ + 1]).heap
    /\ SetPc(w, "finalize")
    /\ UNCHANGED <<envVars, refilling, refillers, bloomVars, storeVars, robotsCache, pops,
                   deadLinkVars, injected, lifeVars,
                   window, ret>>

\* processURL: fetchURL and the error branch after it
FetchFailed(w) ==
    /\ wpc[w] = "fetch"
    /\ FetchError(wlocal[w].task.url) # ""
    /\ wtrace' = [wtrace EXCEPT ![w].gets = @ + 1]
    /\ SetLocal(w, [wlocal[w] EXCEPT
                      !.result.statusCode = GetStatus(wlocal[w].task.url),
                      !.result.error = FetchError(wlocal[w].task.url)])
    /\ metrics' = [metrics EXCEPT !.errors = @ + 1]
    /\ SetPc(w, "finalize")
    /\ UNCHANGED <<envVars, queueVars, bloomVars, storeVars, robotsCache, pops,
                   deadLinkVars, injected, lifeVars,
                   window, ret>>

\* A sample size without the rule of at least one link
numToSampleFloor(n) == (n * SamplePercentTenths) \div 10

\* sampleLinks: the number of links taken
numToSample(n) ==
    LET k == (n * SamplePercentTenths) \div 10
    IN IF k = 0 /\ n > 0 THEN 1 ELSE k

RECURSIVE Samples(_, _)
\* sampleLinks: the sequences a shuffle can put in the first k positions
Samples(links, k) ==
    IF k = 0 THEN {<<>>}
    ELSE UNION {{<<x>> \o rest : rest \in Samples(links \ {x}, k - 1)} : x \in links}

RECURSIVE queueLinksUnbounded(_, _, _)
\* A send per link to a channel without a bound
queueLinksUnbounded(q, links, sourceURL) ==
    IF links = <<>> THEN q
    ELSE queueLinksUnbounded(Append(q, [url |-> Head(links), sourceURL |-> sourceURL]),
                             Tail(links), sourceURL)

RECURSIVE queueLinksForChecking(_, _, _)
\* ContentExtractor.queueLinksForChecking: a non-blocking send per link
queueLinksForChecking(q, links, sourceURL) ==
    IF links = <<>> THEN q
    ELSE queueLinksForChecking(
            IF Len(q) < LinkQueueCap
            THEN Append(q, [url |-> Head(links), sourceURL |-> sourceURL])
            ELSE q,
            Tail(links), sourceURL)

\* CrawlerService.shouldCheckDeadLinks
shouldCheckDeadLinks == config.checkDeadDomains \/ config.mode = "domains"

\* A mode switch whose "all" branch always calls CheckDeadLinks
ChecksDeadLinksInAll == config.mode \in {"domains", "all"}

\* processURL: the branches of the mode switch that call CheckDeadLinks
ChecksDeadLinks == config.mode = "domains" \/ (config.mode = "all" /\ shouldCheckDeadLinks)

\* A guard of link expansion that is off by one
ShouldExpandInclusive(task) == task.depth <= maxDepth

\* processURL: the guard of link expansion
ShouldExpand(task) == task.depth < maxDepth

\* processURL: the depth handed to addNewURLs
ChildDepth(task) == task.depth + 1

\* addNewURLs: the position after the loop body, for the links still to visit
NextLink(links) == IF links = <<>> THEN "finalize" ELSE "expand"

\* processURL: fetchURL returns HTML; the mode switch; ExtractLinks for expansion
Fetch(w) ==
    /\ wpc[w] = "fetch"
    /\ FetchError(wlocal[w].task.url) = ""
    /\ LET task == wlocal[w].task
           u == task.url
           emails == IF config.mode \in {"email", "all"} THEN ExtractEmails(u) ELSE <<>>
           kws == IF config.mode \in {"keywords", "all"}
                  THEN ExtractKeywords(u, config.keywords) ELSE NoKeywords
           links == ExtractLinks(u)
           todo == IF ShouldExpand(task) THEN links ELSE <<>>
       IN /\ wtrace' = [wtrace EXCEPT ![w].gets = @ + 1]
          /\ SetLocal(w, [wlocal[w] EXCEPT
                            !.result.statusCode = GetStatus(u),
                            !.result.emails = emails,
                            !.result.keywords = kws,
                            !.links = todo])
          /\ IF ChecksDeadLinks
             THEN \E sample \in Samples(Range(links), numToSample(Len(links))) :
                     linkQueue' = queueLinksForChecking(linkQueue, sample, u)
             ELSE UNCHANGED linkQueue
          /\ metrics' = [metrics EXCEPT
                            !.emailsFound = @ + Len(emails),
                            !.keywordsFound = @ + SumCounts(kws),
                            !.linksChecked = @ + (IF ChecksDeadLinks THEN Len(links) ELSE 0)]
          /\ SetPc(w, NextLink(todo))
    /\ UNCHANGED <<envVars, queueVars, bloomVars, storeVars, robotsCache, pops,
                   dlpc, dlreq, deadLinkCache, deadDomainCache, injected, lifeVars,
                   window, ret>>

\* addNewURLs: IsValidURL and BloomFilter.Test for the next link
ExpandTest(w) ==
    /\ wpc[w] = "expand"
    /\ LET u == Head(wlocal[w].links)
       IN IF ~IsValidURL(u) \/ BloomTest(bloom, u)
          THEN /\ SetLocal(w, [wlocal[w] EXCEPT
                                 !.links = Tail(@),
                                 !.result.newURLs =
                                     IF Tail(wlocal[w].links) = <<>> THEN wlocal[w].new ELSE @])
               /\ SetPc(w, NextLink(Tail(wlocal[w].links)))
          ELSE /\ SetPc(w, "add")
               /\ UNCHANGED wlocal
    /\ UNCHANGED <<envVars, queueVars, bloomVars, storeVars, metrics, robotsCache,
                   wtrace, pops, deadLinkVars, injected, lifeVars,
                   window, ret>>

\* addNewURLs: BloomFilter.Add, the new task, URLQueue.Push
ExpandAdd(w) ==
    /\ wpc[w] = "add"
    /\ LET u == Head(wlocal[w].links)
           task == Task(u, ChildDepth(wlocal[w].task), now)
           r == QueuePush(heap, task)
           rest == Tail(wlocal[w].links)
       IN /\ bloom' = BloomAdd(bloom, u)
          /\ bloomAdded' = bloomAdded \cup {u}
          /\ heap' = r.heap
          /\ IF r.err # ""
             THEN /\ SetLocal(w, [wlocal[w] EXCEPT !.spill = task])
                  /\ SetPc(w, "spill")
             ELSE /\ SetLocal(w, [wlocal[w] EXCEPT
                                    !.links = rest,
                                    !.new = Append(@, u),
                                    !.result.newURLs =
                                        IF rest = <<>> THEN Append(wlocal[w].new, u) ELSE @])
                  /\ SetPc(w, NextLink(rest))
    /\ UNCHANGED <<envVars, refilling, refillers, storeVars, metrics, robotsCache,
                   wtrace, pops, deadLinkVars, injected, lifeVars,
                   window, ret>>

\* addNewURLs: Push failed, Storage.StoreURL
ExpandSpill(w) ==
    /\ wpc[w] = "spill"
    /\ LET u == Head(wlocal[w].links)
           rest == Tail(wlocal[w].links)
       IN /\ urlDB' = StoreURL(urlDB, wlocal[w].spill)
          /\ SetLocal(w, [wlocal[w] EXCEPT
                            !.links = rest,
                            !.spill = NoTask,
                            !.new = Append(@, u),
                            !.result.newURLs =
                                IF rest = <<>> THEN Append(wlocal[w].new, u) ELSE @])
          /\ SetPc(w, NextLink(rest))
    /\ UNCHANGED <<envVars, queueVars, bloomVars, resultsDB, smetrics, storeCalls,
                   metrics, robotsCache, wtrace, pops, deadLinkVars, injected, lifeVars,
                   window, ret>>

\* A processURL that persists and counts at its end only, so that the early
\* returns skip both
FinalizeOnSuccess(w) ==
    /\ wpc[w] = "finalize"
    /\ IF wlocal[w].result.error = ""
       THEN /\ resultsDB' = StoreResultDB(resultsDB, wlocal[w].result)
            /\ smetrics' = StoreResultMetrics(smetrics, wlocal[w].result)
            /\ storeCalls' = storeCalls + 1
            /\ metrics' = [metrics EXCEPT !.urlsProcessed = @ + 1]
            /\ wtrace' = [wtrace EXCEPT ![w].stored = Append(@, wlocal[w].result),
                                        ![w].bumps = @ + 1]
       ELSE UNCHANGED <<resultsDB, smetrics, storeCalls, metrics, wtrace>>
    /\ SetLocal(w, NoLocal)
    /\ SetPc(w, "loop")
    /\ UNCHANGED <<envVars, queueVars, bloomVars, urlDB, robotsCache, pops,
                   deadLinkVars, injected, lifeVars,
                   window, ret>>

\* A deferred function that calls MetricsCollector.Reset before it counts
FinalizeResets(w) ==
    /\ wpc[w] = "finalize"
    /\ resultsDB' = StoreResultDB(resultsDB, wlocal[w].result)
    /\ smetrics' = StoreResultMetrics(smetrics, wlocal[w].result)
    /\ storeCalls' = storeCalls + 1
    /\ metrics' = [ZeroMetrics EXCEPT !.urlsProcessed = 1]
    /\ wtrace' = [wtrace EXCEPT ![w].stored = Append(@, wlocal[w].result),
                                ![w].bumps = @ + 1]
    /\ SetLocal(w, NoLocal)
    /\ SetPc(w, "loop")
    /\ UNCHANGED <<envVars, queueVars, bloomVars, urlDB, robotsCache, pops,
                   deadLinkVars, injected, lifeVars, window, ret>>

\* processURL: the deferred function, StoreResult then UpdateURLsProcessed(1)
Finalize(w) ==
    /\ wpc[w] = "finalize"
    /\ resultsDB' = StoreResultDB(resultsDB, wlocal[w].result)
    /\ smetrics' = StoreResultMetrics(smetrics, wlocal[w].result)
    /\ storeCalls' = storeCalls + 1
    /\ metrics' = [metrics EXCEPT !.urlsProcessed = @ + 1]
    /\ wtrace' = [wtrace EXCEPT ![w].stored = Append(@, wlocal[w].result),
                                ![w].bumps = @ + 1]
    /\ SetLocal(w, NoLocal)
    /\ SetPc(w, "loop")
    /\ UNCHANGED <<envVars, queueVars, bloomVars, urlDB, robotsCache, pops,
                   deadLinkVars, injected, lifeVars,
                   window, ret>>

\* ------------------------------------------------------------------------
\* PriorityURLQueue.refillFromDB, one goroutine per slot
\* ------------------------------------------------------------------------
SetRefiller(r, v) == refillers' = [refillers EXCEPT ![r] = v]

\* refillFromDB entered without the check of q.refilling
RefillBeginUnguarded(r) ==
    /\ refillers[r].pc = "start"
    /\ refilling' = TRUE
    /\ SetRefiller(r, [NoRefiller EXCEPT !.pc = "size"])
    /\ UNCHANGED <<envVars, heap, bloomVars, storeVars, metrics, robotsCache,
                   workerVars, deadLinkVars, injected, lifeVars,
                   window, ret>>

\* refillFromDB: the check and set of q.refilling under the lock
RefillBegin(r) ==
    /\ refillers[r].pc = "start"
    /\ IF refilling
       THEN /\ SetRefiller(r, NoRefiller)
            /\ UNCHANGED refilling
       ELSE /\ refilling' = TRUE
            /\ SetRefiller(r, [NoRefiller EXCEPT !.pc = "size"])
    /\ UNCHANGED <<envVars, heap, bloomVars, storeVars, metrics, robotsCache,
                   workerVars, deadLinkVars, injected, lifeVars,
                   window, ret>>

\* refillFromDB: needed := maxSize - q.Size()
RefillSize(r) ==
    /\ refillers[r].pc = "size"
    /\ LET needed == maxSize - Len(heap)
       IN SetRefiller(r, [refillers[r] EXCEPT
                            !.needed = needed,
                            !.pc = IF needed <= 0 THEN "end" ELSE "get"])
    /\ UNCHANGED <<envVars, heap, refilling, bloomVars, storeVars, metrics,
                   robotsCache, workerVars, deadLinkVars, injected, lifeVars,
                   window, ret>>

\* refillFromDB: storage.GetURLs(needed), which deletes what it returns; on
\* an error (a closed store, a value that does not unmarshal) refillFromDB
\* returns and drops the tasks that came with the error
RefillGet(r) ==
    /\ refillers[r].pc = "get"
    /\ LET got == IF storeClosed THEN [tasks |-> <<>>, db |-> urlDB, err |-> "DB Closed"]
                  ELSE GetURLs(urlDB, refillers[r].needed)
           urls == IF got.err # "" THEN <<>> ELSE got.tasks
       IN /\ urlDB' = got.db
          /\ SetRefiller(r, [refillers[r] EXCEPT
                               !.urls = urls,
                               !.pc = IF urls = <<>> THEN "end" ELSE "push"])
    /\ UNCHANGED <<envVars, heap, refilling, bloomVars, resultsDB, smetrics,
                   storeCalls, metrics, robotsCache, workerVars, deadLinkVars, injected, lifeVars,
                   window, ret>>

\* refillFromDB: q.Push of the next fetched task; an error breaks the loop
RefillPush(r) ==
    /\ refillers[r].pc = "push"
    /\ LET res == QueuePush(heap, Head(refillers[r].urls))
           rest == Tail(refillers[r].urls)
       IN /\ heap' = res.heap
          /\ IF res.err # ""
             THEN SetRefiller(r, [refillers[r] EXCEPT !.urls = <<>>, !.pc = "end"])
             ELSE SetRefiller(r, [refillers[r] EXCEPT
                                    !.urls = rest,
                                    !.pc = IF rest = <<>> THEN "end" ELSE "push"])
    /\ UNCHANGED <<envVars, refilling, bloomVars, storeVars, metrics, robotsCache,
                   workerVars, deadLinkVars, injected, lifeVars,
                   window, ret>>

\* refillFromDB: the deferred reset of q.refilling
RefillEnd(r) ==
    /\ refillers[r].pc = "end"
    /\ refilling' = FALSE
    /\ SetRefiller(r, NoRefiller)
    /\ UNCHANGED <<envVars, heap, bloomVars, storeVars, metrics, robotsCache,
                   workerVars, deadLinkVars, injected, lifeVars,
                   window, ret>>

\* ------------------------------------------------------------------------
\* ContentExtractor: the async dead-link workers
\* ------------------------------------------------------------------------
\* upper bounds of the caches before they are cleared
DeadDomainCacheLimit == 1000
DeadLinkCacheLimit == 5000

\* cacheDomainStatus / cacheDeadLink
cachePut(cache, limit, k, v) ==
    LET base == IF Cardinality(DOMAIN cache) > limit THEN EmptyMap ELSE cache
    IN [x \in DOMAIN base \cup {k} |-> IF x = k THEN v ELSE base[x]]

\* ContentExtractor.isDomainDead: the answer and the cache after it
isDomainDead(cache, h) ==
    IF h \in DOMAIN cache THEN [dead |-> cache[h], cache |-> cache]
    ELSE [dead |-> h \in DeadHosts,
          cache |-> cachePut(cache, DeadDomainCacheLimit, h, h \in DeadHosts)]

\* A link check for which only a status of 500 or more is dead
isDeadLinkServerError(cache, u) ==
    LET isDead == IF u.host \in DeadHosts THEN TRUE ELSE HeadStatus(u) >= 500
    IN IF u \in DOMAIN cache THEN [dead |-> cache[u], cache |-> cache]
       ELSE [dead |-> isDead, cache |-> cachePut(cache, DeadLinkCacheLimit, u, isDead)]

\* ContentExtractor.isDeadLinkFast: the answer and the cache after it
isDeadLinkFast(cache, u) ==
    LET isDead == IF u.host \in DeadHosts THEN TRUE
                  ELSE HeadStatus(u) = 404 \/ HeadStatus(u) = 410 \/ HeadStatus(u) >= 500
    IN IF u \in DOMAIN cache THEN [dead |-> cache[u], cache |-> cache]
       ELSE [dead |-> isDead, cache |-> cachePut(cache, DeadLinkCacheLimit, u, isDead)]

\* asyncDeadLinkWorker: <-e.ctx.Done() is chosen by the select
DeadLinkExit(d) ==
    /\ dlpc[d] = "idle"
    /\ extractorClosed
    /\ dlpc' = [dlpc EXCEPT ![d] = "exited"]
    /\ UNCHANGED <<envVars, queueVars, bloomVars, storeVars, metrics, robotsCache,
                   workerVars, linkQueue, dlreq, deadLinkCache, deadDomainCache,
                   injected, lifeVars, window, ret>>

\* asyncDeadLinkWorker: receive from linkQueue; a closed and drained channel
\* yields the zero request
DeadLinkTake(d) ==
    /\ dlpc[d] = "idle"
    /\ IF linkQueue = <<>> THEN extractorClosed ELSE TRUE
    /\ dlreq' = [dlreq EXCEPT ![d] = IF linkQueue # <<>> THEN Head(linkQueue)
                                     ELSE NoRequest]
    /\ linkQueue' = IF linkQueue # <<>> THEN Tail(linkQueue) ELSE linkQueue
    /\ dlpc' = [dlpc EXCEPT ![d] = "busy"]
    /\ UNCHANGED <<envVars, queueVars, bloomVars, storeVars, metrics, robotsCache,
                   workerVars, deadLinkCache, deadDomainCache, injected, lifeVars,
                   window, ret>>

\* processLinkAsync: the record it stores for a dead link
DeadLinkResult(req, domains) ==
    [NoResult EXCEPT !.url = req.sourceURL, !.processedAt = now,
                     !.deadLinks = <<req.url>>, !.deadDomains = domains]

\* processLinkAsync: e.storage.StoreResult(result), whose error is dropped; a
\* closed store writes nothing
DeadLinkStore(result) ==
    IF storeClosed
    THEN /\ lateStores' = lateStores + 1
         /\ UNCHANGED <<resultsDB, smetrics, storeCalls>>
    ELSE /\ resultsDB' = StoreResultDB(resultsDB, result)
         /\ smetrics' = StoreResultMetrics(smetrics, result)
         /\ storeCalls' = storeCalls + 1
         /\ UNCHANGED lateStores

\* ContentExtractor.processLinkAsync
DeadLinkProcess(d) ==
    /\ dlpc[d] = "busy"
    /\ LET req == dlreq[d]
           h == GetDomain(req.url)
           dom == isDomainDead(deadDomainCache, h)
           lnk == isDeadLinkFast(deadLinkCache, req.url)
       IN IF h = ""
          THEN UNCHANGED <<storeVars, metrics, deadLinkCache, deadDomainCache,
                           lateStores>>
          ELSE IF dom.dead
          THEN /\ deadDomainCache' = dom.cache
               /\ DeadLinkStore(DeadLinkResult(req, <<h>>))
               /\ metrics' = [metrics EXCEPT !.deadLinksFound = @ + 1,
                                             !.deadDomainsFound = @ + 1]
               /\ UNCHANGED <<urlDB, deadLinkCache>>
          ELSE /\ deadDomainCache' = dom.cache
               /\ deadLinkCache' = lnk.cache
               /\ IF lnk.dead
                  THEN /\ DeadLinkStore(DeadLinkResult(req, <<>>))
                       /\ metrics' = [metrics EXCEPT !.deadLinksFound = @ + 1]
                       /\ UNCHANGED urlDB
                  ELSE UNCHANGED <<storeVars, metrics, lateStores>>
    /\ dlreq' = [dlreq EXCEPT ![d] = NoRequest]
    /\ dlpc' = [dlpc EXCEPT ![d] = "idle"]
    /\ UNCHANGED <<envVars, queueVars, bloomVars, robotsCache, workerVars,
                   linkQueue, injected, mainpc, storeClosed, extractorClosed,
                   window, ret>>

\* ------------------------------------------------------------------------
\* Dashboard: POST /api/add-urls
\* ------------------------------------------------------------------------
\* the URLs an operator posts
InjectURLs == {A1, Ftp, MailTo}

\* handleAddURLs: the validation of one URL
DashboardValid(u) == u.scheme # "" /\ u.host # ""

\* Dashboard.handleAddURLs for a request carrying one URL
AddURLs(u) ==
    /\ injected < MaxInject
    /\ injected' = injected + 1
    /\ heap' = IF DashboardValid(u) THEN QueuePush(heap, Task(u, 0, now)).heap ELSE heap
    /\ UNCHANGED <<envVars, refilling, refillers, bloomVars, storeVars, metrics,
                   robotsCache, workerVars, deadLinkVars, lifeVars, window, ret>>

\* ------------------------------------------------------------------------
\* runCrawler: teardown
\* ------------------------------------------------------------------------
\* StartCrawling returns once every worker has returned; runCrawler sleeps and
\* its deferred calls begin
StartCrawlingReturns ==
    /\ mainpc = "crawl"
    /\ \A w \in Workers : wpc[w] \in {"exited", "none"}
    /\ mainpc' = "closeQueue"
    /\ UNCHANGED <<envVars, queueVars, bloomVars, storeVars, metrics, robotsCache,
                   workerVars, deadLinkVars, injected, storeClosed, extractorClosed,
                   lateStores, window, ret>>

\* Infrastructure.Close: URLQueue.Close clears the heap
QueueClose ==
    /\ mainpc = "closeQueue"
    /\ heap' = <<>>
    /\ mainpc' = "closeStorage"
    /\ UNCHANGED <<envVars, refilling, refillers, bloomVars, storeVars, metrics,
                   robotsCache, workerVars, deadLinkVars, injected, storeClosed,
                   extractorClosed, lateStores, window, ret>>

\* Infrastructure.Close: Storage.Close saves the metrics and closes both
\* databases
StorageClose ==
    /\ mainpc = "closeStorage"
    /\ storeClosed' = TRUE
    /\ mainpc' = "closeExtractor"
    /\ UNCHANGED <<envVars, queueVars, bloomVars, storeVars, metrics, robotsCache,
                   workerVars, deadLinkVars, injected, extractorClosed, lateStores,
                   window, ret>>

\* A Close that leaves e.ctx alone
ExtractorCloseNoCancel ==
    /\ mainpc = "closeExtractor"
    /\ mainpc' = "join"
    /\ UNCHANGED <<envVars, queueVars, bloomVars, storeVars, metrics, robotsCache,
                   workerVars, deadLinkVars, injected, storeClosed, extractorClosed,
                   lateStores, window, ret>>

\* ContentExtractor.Close: e.cancel() and close(e.linkQueue)
ExtractorClose ==
    /\ mainpc = "closeExtractor"
    /\ extractorClosed' = TRUE
    /\ mainpc' = "join"
    /\ UNCHANGED <<envVars, queueVars, bloomVars, storeVars, metrics, robotsCache,
                   workerVars, deadLinkVars, injected, storeClosed, lateStores,
                   window, ret>>

\* ContentExtractor.Close: e.wg.Wait() returns; Infrastructure.Close and
\* runCrawler return
ExtractorJoined ==
    /\ mainpc = "join"
    /\ \A d \in DeadLinkWorkers : dlpc[d] = "exited"
    /\ mainpc' = "done"
    /\ UNCHANGED <<envVars, queueVars, bloomVars, storeVars, metrics, robotsCache,
                   workerVars, deadLinkVars, injected, storeClosed, extractorClosed,
                   lateStores, window, ret>>

\* ------------------------------------------------------------------------
\* Direct calls of single methods
\* ------------------------------------------------------------------------
\* fetchURL on a response whose headers passed: the content it returns
FetchBody ==
    /\ ret.op = "body"
    /\ ret' = [op |-> "fetchURL", err |-> "", body |-> ret.body,
               content |-> LimitReadAll(ret.body, MaxBodyBytes)]
    /\ UNCHANGED <<envVars, queueVars, bloomVars, storeVars, metrics, robotsCache,
                   workerVars, deadLinkVars, injected, lifeVars, window>>

\* q.Push(task) called directly
CallPush(task) ==
    /\ ret.op \in {"", "Push", "Pop"}
    /\ heap' = QueuePush(heap, task).heap
    /\ ret' = [NoReturn EXCEPT !.op = "Push", !.err = QueuePush(heap, task).err]
    /\ UNCHANGED <<envVars, refilling, refillers, bloomVars, storeVars, metrics,
                   robotsCache, workerVars, deadLinkVars, injected, lifeVars, window>>

\* q.Pop() called directly: the task and error it returns, and the refill it
\* starts
CallPop ==
    /\ ret.op \in {"", "Push", "Pop"}
    /\ IF Len(heap) = 0
       THEN /\ ret' = [op |-> "Pop", err |-> "queue is empty", tasks |-> <<NoTask>>,
                       before |-> heap]
            /\ UNCHANGED <<heap, refillers>>
       ELSE LET r == heapPop(heap)
                spawn == NeedsRefill(Len(r.heap))
            IN /\ spawn => FreeRefillers # {}
               /\ heap' = r.heap
               /\ refillers' =
                     IF spawn
                     THEN [refillers EXCEPT
                             ![CHOOSE x \in FreeRefillers : \A y \in FreeRefillers : x <= y].pc = "start"]
                     ELSE refillers
               /\ ret' = [op |-> "Pop", err |-> "", tasks |-> <<r.item.task>>,
                          before |-> heap]
    /\ UNCHANGED <<envVars, refilling, bloomVars, storeVars, metrics, robotsCache,
                   workerVars, deadLinkVars, injected, lifeVars, window>>

\* a worker calls storage.StoreURL(task); ret.pending are the URLs stored and
\* not fetched since
CallStoreURL(task) ==
    /\ ret.op \in {"", "StoreURL", "GetURLs"}
    /\ urlDB' = StoreURL(urlDB, task)
    /\ ret' = [op |-> "StoreURL", err |-> "", tasks |-> <<task>>, limit |-> 0,
               before |-> urlDB, findings |-> resultsDB,
               pending |-> ret.pending \cup {task.url}]
    /\ UNCHANGED <<envVars, queueVars, bloomVars, resultsDB, smetrics, storeCalls,
                   metrics, robotsCache, workerVars, deadLinkVars, injected, lifeVars,
                   window>>

\* a refill calls storage.GetURLs(limit)
CallGetURLs(limit) ==
    /\ ret.op \in {"", "StoreURL", "GetURLs"}
    /\ LET got == GetURLs(urlDB, limit)
       IN /\ urlDB' = got.db
          /\ ret' = [op |-> "GetURLs", err |-> got.err, tasks |-> got.tasks, limit |-> limit,
                     before |-> urlDB, findings |-> resultsDB,
                     pending |-> ret.pending \ {got.tasks[i].url : i \in 1..Len(got.tasks)}]
    /\ UNCHANGED <<envVars, queueVars, bloomVars, resultsDB, smetrics, storeCalls,
                   metrics, robotsCache, workerVars, deadLinkVars, injected, lifeVars,
                   window>>

\* ------------------------------------------------------------------------
\* Environment
\* ------------------------------------------------------------------------
\* the wall clock reaches the next second
Tick ==
    /\ now < MaxTime
    /\ now' = now + 1
    /\ UNCHANGED <<config, cancelled, tokens, queueVars, bloomVars, storeVars, metrics,
                   robotsCache, workerVars, deadLinkVars, injected, lifeVars,
                   window, ret>>

\* rate.Limiter: a permit becomes available
TokenRefill ==
    /\ tokens < Burst
    /\ tokens' = tokens + 1
    /\ window' = [window EXCEPT !.refills = @ + 1]
    /\ UNCHANGED <<config, now, cancelled, queueVars, bloomVars, storeVars, metrics,
                   robotsCache, workerVars, deadLinkVars, injected, lifeVars, ret>>

\* rate.Limiter: one second of its clock has passed
WindowEnd ==
    /\ window # NoWindow
    /\ window' = NoWindow
    /\ UNCHANGED <<envVars, queueVars, bloomVars, storeVars, metrics, robotsCache,
                   workerVars, deadLinkVars, injected, lifeVars, ret>>

\* the crawl context is cancelled (signal handler in runCrawler)
Cancel ==
    /\ ~cancelled
    /\ cancelled' = TRUE
    /\ UNCHANGED <<config, now, tokens, queueVars, bloomVars, storeVars, metrics,
                   robotsCache, workerVars, deadLinkVars, injected, lifeVars,
                   window, ret>>

\* ------------------------------------------------------------------------
\* Specifications
\* ------------------------------------------------------------------------
\* A crawl of the small sites (http://s/ and the PDF at http://c/x.pdf), in
\* every mode, with the dead-link workers and cancellation.
InitCrawl == Init /\ config.startURL \in {SeedS, C1} /\ config.workers = NumWorkers

Next ==
    \/ \E w \in Workers : WorkerExit(w)
    \/ \E w \in Workers : PopTask(w)
    \/ \E w \in Workers : PopEmpty(w)
    \/ \E w \in Workers : CheckRobots(w)
    \/ \E w \in Workers : RateWaitPermit(w)
    \/ \E w \in Workers : RateWaitCancelled(w)
    \/ \E w \in Workers : FetchFailed(w)
    \/ \E w \in Workers : Fetch(w)
    \/ \E w \in Workers : ExpandTest(w)
    \/ \E w \in Workers : ExpandAdd(w)
    \/ \E w \in Workers : Finalize(w)
    \/ \E r \in Refillers : RefillBegin(r)
    \/ \E r \in Refillers : RefillSize(r)
    \/ \E r \in Refillers : RefillGet(r)
    \/ \E r \in Refillers : RefillEnd(r)
    \/ \E d \in DeadLinkWorkers : DeadLinkTake(d)
    \/ \E d \in DeadLinkWorkers : DeadLinkProcess(d)
    \/ TokenRefill
    \/ Cancel

Spec == InitCrawl /\ [][Next]_vars

\* The same crawl with the wall clock running and no cancellation.
NextClock ==
    \/ \E w \in Workers : PopTask(w)
    \/ \E w \in Workers : PopEmpty(w)
    \/ \E w \in Workers : CheckRobots(w)
    \/ \E w \in Workers : RateWaitPermit(w)
    \/ \E w \in Workers : FetchFailed(w)
    \/ \E w \in Workers : Fetch(w)
    \/ \E w \in Workers : ExpandTest(w)
    \/ \E w \in Workers : ExpandAdd(w)
    \/ \E w \in Workers : Finalize(w)
    \/ \E r \in Refillers : RefillBegin(r)
    \/ \E r \in Refillers : RefillSize(r)
    \/ \E r \in Refillers : RefillGet(r)
    \/ \E r \in Refillers : RefillEnd(r)
    \/ \E d \in DeadLinkWorkers : DeadLinkTake(d)
    \/ \E d \in DeadLinkWorkers : DeadLinkProcess(d)
    \/ TokenRefill
    \/ Tick

SpecClock == InitCrawl /\ [][NextClock]_vars

\* A crawl of http://a/ in e-mail mode: the seed's page overflows the
\* frontier, so that tasks spill to the backlog and are refilled.
InitFrontier ==
    Init /\ config.startURL = Seed /\ config.mode = "email" /\ config.workers = NumWorkers

NextFrontier ==
    \/ \E w \in Workers : PopTask(w)
    \/ \E w \in Workers : PopEmpty(w)
    \/ \E w \in Workers : CheckRobots(w)
    \/ \E w \in Workers : RateWaitPermit(w)
    \/ \E w \in Workers : FetchFailed(w)
    \/ \E w \in Workers : Fetch(w)
    \/ \E w \in Workers : ExpandTest(w)
    \/ \E w \in Workers : ExpandAdd(w)
    \/ \E w \in Workers : ExpandSpill(w)
    \/ \E w \in Workers : Finalize(w)
    \/ \E r \in Refillers : RefillBegin(r)
    \/ \E r \in Refillers : RefillSize(r)
    \/ \E r \in Refillers : RefillGet(r)
    \/ \E r \in Refillers : RefillPush(r)
    \/ \E r \in Refillers : RefillEnd(r)
    \/ TokenRefill

SpecFrontier == InitFrontier /\ [][NextFrontier]_vars

\* The crawl of http://a/ started with --workers 1, while an operator posts
\* URLs to the dashboard.
NextDashboard ==
    \/ \E w \in {1} : PopTask(w)
    \/ \E w \in {1} : PopEmpty(w)
    \/ \E w \in {1} : CheckRobots(w)
    \/ \E w \in {1} : RateWaitPermit(w)
    \/ \E w \in {1} : FetchFailed(w)
    \/ \E w \in {1} : Fetch(w)
    \/ \E w \in {1} : ExpandTest(w)
    \/ \E w \in {1} : ExpandAdd(w)
    \/ \E w \in {1} : ExpandSpill(w)
    \/ \E w \in {1} : Finalize(w)
    \/ \E r \in Refillers : RefillBegin(r)
    \/ \E r \in Refillers : RefillSize(r)
    \/ \E r \in Refillers : RefillGet(r)
    \/ \E r \in Refillers : RefillPush(r)
    \/ \E r \in Refillers : RefillEnd(r)
    \/ \E u \in InjectURLs : AddURLs(u)
    \/ TokenRefill

SpecDashboard == InitFrontier /\ [][NextDashboard]_vars

\* The backlog that an earlier run left in the data directory: two tasks and,
\* between them in key order, a value that is not the JSON of a task
LeftoverBacklog ==
    [k \in {URLKey(A9), URLKey(C1), URLKey(SeedS)} |->
        IF k = URLKey(C1) THEN Malformed ELSE MarshalTask(Task(k.url, 1, 0))]

\* The crawl of http://a/ with --workers 1, started on that data directory.
InitBacklog ==
    /\ InitOpened(LeftoverBacklog)
    /\ ret = NoReturn
    /\ config.startURL = Seed /\ config.mode = "email" /\ config.workers = 1

NextBacklog ==
    \/ \E w \in {1} : PopTask(w)
    \/ \E w \in {1} : PopEmpty(w)
    \/ \E w \in {1} : CheckRobots(w)
    \/ \E w \in {1} : RateWaitPermit(w)
    \/ \E w \in {1} : FetchFailed(w)
    \/ \E w \in {1} : Fetch(w)
    \/ \E w \in {1} : ExpandTest(w)
    \/ \E w \in {1} : ExpandAdd(w)
    \/ \E w \in {1} : ExpandSpill(w)
    \/ \E w \in {1} : Finalize(w)
    \/ \E r \in Refillers : RefillBegin(r)
    \/ \E r \in Refillers : RefillSize(r)
    \/ \E r \in Refillers : RefillGet(r)
    \/ \E r \in Refillers : RefillPush(r)
    \/ \E r \in Refillers : RefillEnd(r)
    \/ TokenRefill

SpecBacklog == InitBacklog /\ [][NextBacklog]_vars

\* The crawl of http://c/ in e-mail mode with two workers, the robots check
\* in its steps: lookup, GET of robots.txt, caching. Host c answers 404 for
\* robots.txt; the page links to two URLs of host d.
InitRobots ==
    Init /\ config.startURL = SeedC /\ config.mode = "email" /\ config.workers = NumWorkers

NextRobots ==
    \/ \E w \in Workers : PopTask(w)
    \/ \E w \in Workers : PopEmpty(w)
    \/ \E w \in Workers : RobotsLookup(w)
    \/ \E w \in Workers : RobotsCached(w)
    \/ \E w \in Workers : RobotsFetched(w)
    \/ \E w \in Workers : RateWaitPermit(w)
    \/ \E w \in Workers : FetchFailed(w)
    \/ \E w \in Workers : Fetch(w)
    \/ \E w \in Workers : ExpandTest(w)
    \/ \E w \in Workers : ExpandAdd(w)
    \/ \E w \in Workers : Finalize(w)
    \/ \E r \in Refillers : RefillBegin(r)
    \/ \E r \in Refillers : RefillSize(r)
    \/ \E r \in Refillers : RefillGet(r)
    \/ \E r \in Refillers : RefillEnd(r)
    \/ TokenRefill

SpecRobots == InitRobots /\ [][NextRobots]_vars

\* The dead-link workers probe one live target after the other, the n-th on
\* the n-th host, each probe being the first of its host and of its URL:
\* isDomainDead and isDeadLinkFast insert into their caches.
InitCache ==
    Init /\ config.startURL = SeedS /\ config.mode = "domains" /\ config.workers = 1

\* processLinkAsync for a target not seen before on a host not seen before;
\* targets and hosts are numbered in the order of their probes
CacheProbe ==
    /\ (DeadLinkCacheLimit + 2) \notin DOMAIN deadLinkCache
    /\ LET n == Cardinality(DOMAIN deadLinkCache) + 1
       IN /\ deadDomainCache' = cachePut(deadDomainCache, DeadDomainCacheLimit, n, FALSE)
          /\ deadLinkCache' = cachePut(deadLinkCache, DeadLinkCacheLimit, n, FALSE)
    /\ UNCHANGED <<envVars, queueVars, bloomVars, storeVars, metrics, robotsCache,
                   workerVars, linkQueue, dlpc, dlreq, injected, lifeVars, window, ret>>

SpecCache == InitCache /\ [][CacheProbe]_vars

\* The crawl of http://a/ in domains mode with --workers 1: every fetched page
\* hands a sample of its links to the dead-link queue, which the dead-link
\* workers drain at their own pace.
InitDeadLinks ==
    Init /\ config.startURL = Seed /\ config.mode = "domains" /\ config.workers = 1

NextDeadLinks ==
    \/ \E w \in {1} : PopTask(w)
    \/ \E w \in {1} : PopEmpty(w)
    \/ \E w \in {1} : CheckRobots(w)
    \/ \E w \in {1} : RateWaitPermit(w)
    \/ \E w \in {1} : FetchFailed(w)
    \/ \E w \in {1} : Fetch(w)
    \/ \E w \in {1} : ExpandTest(w)
    \/ \E w \in {1} : ExpandAdd(w)
    \/ \E w \in {1} : ExpandSpill(w)
    \/ \E w \in {1} : Finalize(w)
    \/ \E r \in Refillers : RefillBegin(r)
    \/ \E r \in Refillers : RefillSize(r)
    \/ \E r \in Refillers : RefillGet(r)
    \/ \E r \in Refillers : RefillPush(r)
    \/ \E r \in Refillers : RefillEnd(r)
    \/ \E d \in DeadLinkWorkers : DeadLinkTake(d)
    \/ \E d \in DeadLinkWorkers : DeadLinkProcess(d)
    \/ TokenRefill

SpecDeadLinks == InitDeadLinks /\ [][NextDeadLinks]_vars

\* The crawl of http://s/ in domains mode with --workers 1, cancelled at any
\* moment and torn down by runCrawler. The Go scheduler runs every goroutine that can
\* run, and a select picks among its ready cases at random, so that a case
\* ready again and again is eventually chosen.
InitShutdown ==
    Init /\ config.startURL = SeedS /\ config.mode = "domains" /\ config.workers = 1

WorkerStep(w) ==
    \/ WorkerExit(w)
    \/ PopTask(w)
    \/ CheckRobots(w)
    \/ RateWaitPermit(w)
    \/ RateWaitCancelled(w)
    \/ FetchFailed(w)
    \/ Fetch(w)
    \/ ExpandTest(w)
    \/ ExpandAdd(w)
    \/ Finalize(w)

RefillStep(r) ==
    \/ RefillBegin(r)
    \/ RefillSize(r)
    \/ RefillGet(r)
    \/ RefillEnd(r)

MainStep ==
    \/ StartCrawlingReturns
    \/ QueueClose
    \/ StorageClose
    \/ ExtractorClose
    \/ ExtractorJoined

NextShutdown ==
    \/ \E w \in Workers : WorkerStep(w)
    \/ \E w \in Workers : PopEmpty(w)
    \/ \E r \in Refillers : RefillStep(r)
    \/ \E d \in DeadLinkWorkers : DeadLinkTake(d)
    \/ \E d \in DeadLinkWorkers : DeadLinkProcess(d)
    \/ \E d \in DeadLinkWorkers : DeadLinkExit(d)
    \/ MainStep
    \/ TokenRefill
    \/ Cancel

FairShutdown ==
    /\ \A w \in Workers : WF_vars(WorkerStep(w))
    /\ \A r \in Refillers : WF_vars(RefillStep(r))
    /\ \A d \in DeadLinkWorkers : WF_vars(DeadLinkTake(d) \/ DeadLinkProcess(d))
    /\ \A d \in DeadLinkWorkers : SF_vars(DeadLinkExit(d))
    /\ WF_vars(MainStep)
    /\ WF_vars(TokenRefill)

SpecShutdown == InitShutdown /\ [][NextShutdown]_vars /\ FairShutdown

\* The crawl of http://a/ in e-mail mode with --workers 1 against the clock of
\* the rate limiter: the bucket gains at most RateLimit permits per second.
\* rate.Limiter.Wait reserves the next permit for its caller, so that a waiting
\* worker is served when permits keep arriving.
InitRate ==
    Init /\ config.startURL = Seed /\ config.mode = "email" /\ config.workers = 1

TokenRefillTimed == window.refills < RateLimit /\ TokenRefill

NextRate ==
    \/ \E w \in Workers : PopTask(w)
    \/ \E w \in Workers : PopEmpty(w)
    \/ \E w \in Workers : CheckRobots(w)
    \/ \E w \in Workers : RateWaitPermit(w)
    \/ \E w \in Workers : FetchFailed(w)
    \/ \E w \in Workers : Fetch(w)
    \/ \E w \in Workers : ExpandTest(w)
    \/ \E w \in Workers : ExpandAdd(w)
    \/ \E w \in Workers : ExpandSpill(w)
    \/ \E w \in Workers : Finalize(w)
    \/ \E r \in Refillers : RefillBegin(r)
    \/ \E r \in Refillers : RefillSize(r)
    \/ \E r \in Refillers : RefillGet(r)
    \/ \E r \in Refillers : RefillPush(r)
    \/ \E r \in Refillers : RefillEnd(r)
    \/ TokenRefillTimed
    \/ WindowEnd

FairRate ==
    /\ \A w \in Workers : WF_vars(WorkerStep(w) \/ ExpandSpill(w))
    /\ \A w \in Workers : SF_vars(RateWaitPermit(w))
    /\ \A r \in Refillers : WF_vars(RefillStep(r) \/ RefillPush(r))
    /\ WF_vars(TokenRefillTimed)
    /\ WF_vars(WindowEnd)

SpecRate == InitRate /\ [][NextRate]_vars /\ FairRate

\* fetchURL called on every response body of up to MaxChunks chunks.
InitBody ==
    /\ InitProgram
    /\ config.startURL = Seed /\ config.mode = "email" /\ config.workers = 1
    /\ \E b \in Bodies : ret = [op |-> "body", err |-> "", body |-> b, content |-> <<>>]

SpecBody == InitBody /\ [][FetchBody]_vars

\* StoreURL and GetURLs called in any order on the backlog, by any caller,
\* each call one Badger transaction.
InitStore ==
    /\ InitProgram
    /\ config.startURL = Seed /\ config.mode = "email" /\ config.workers = NumWorkers
    /\ ret = [NoReturn EXCEPT !.before = EmptyMap] @@ [limit |-> 0, findings |-> EmptyMap,
                                                       pending |-> {}]

NextStore ==
    \/ \E u \in {A1, B1, D1, SeedS}, d \in 0..maxDepth : CallStoreURL(Task(u, d, now))
    \/ \E limit \in 0..maxSize : CallGetURLs(limit)

SpecStore == InitStore /\ [][NextStore]_vars

\* Push and Pop called in any order on the frontier, with the refills that
\* Pop starts (the backlog is empty).
InitQueue ==
    /\ InitProgram
    /\ config.startURL = Seed /\ config.mode = "email" /\ config.workers = NumWorkers
    /\ ret = NoReturn

NextQueue ==
    \/ \E task \in {Task(A1, 0, 0), Task(B1, 0, 0), Task(A1, 0, MaxTime), Task(A1, 1, 0),
                      Task(A1, maxDepth, MaxTime)} : CallPush(task)
    \/ CallPop
    \/ \E r \in Refillers : RefillBegin(r)
    \/ \E r \in Refillers : RefillSize(r)
    \/ \E r \in Refillers : RefillGet(r)
    \/ \E r \in Refillers : RefillEnd(r)

SpecQueue == InitQueue /\ [][NextQueue]_vars

\* ------------------------------------------------------------------------
\* Properties
\* ------------------------------------------------------------------------
\* worker w is inside processURL
Processing(w) == wpc[w] \notin {"loop", "exited"}

\* no worker is inside processURL
NoneProcessing == \A w \in Workers : ~Processing(w)

\* C1: for every task a worker pops, processURL makes exactly one StoreResult
\* call, for the task's URL, and one UpdateURLsProcessed(1), and both have
\* happened when the worker is back at the head of its loop, whichever way
\* processURL returned; until then neither has happened.
C1_OneResultPerPop ==
    /\ \A w \in Workers :
          IF Processing(w)
          THEN /\ wtrace[w].url = wlocal[w].task.url
               /\ wtrace[w].stored = <<>>
               /\ wtrace[w].bumps = 0
          ELSE wtrace[w].url # NoURL =>
                  /\ Len(wtrace[w].stored) = 1
                  /\ wtrace[w].stored[1].url = wtrace[w].url
                  /\ wtrace[w].bumps = 1
                  /\ ResultKey(wtrace[w].url, wtrace[w].stored[1].processedAt)
                        \in DOMAIN resultsDB
    /\ metrics.urlsProcessed = pops - Cardinality({w \in Workers : Processing(w)})

\* C1 witness: a crawl in which a page was extracted, a URL was denied by
\* robots.txt and a fetch failed, each with its result persisted.
C1_Witness ==
    /\ NoneProcessing
    /\ pops = 3
    /\ ResultKey(SeedS, 0) \in DOMAIN resultsDB /\ resultsDB[ResultKey(SeedS, 0)].error = ""
    /\ ResultKey(D1, 0) \in DOMAIN resultsDB
    /\ resultsDB[ResultKey(D1, 0)].error = "blocked by robots.txt"
    /\ ResultKey(B1, 0) \in DOMAIN resultsDB
    /\ resultsDB[ResultKey(B1, 0)].statusCode = 0
    /\ resultsDB[ResultKey(B1, 0)].error # ""

\* C1 witness of the two other exits: a result persisted after the rate wait
\* was cancelled, and one for a rejected PDF.
C1_WitnessCancelled ==
    \E w \in Workers :
        /\ ~Processing(w)
        /\ Len(wtrace[w].stored) = 1
        /\ wtrace[w].stored[1].error = "rate limit context cancelled"

C1_WitnessRejected ==
    \E w \in Workers :
        /\ ~Processing(w)
        /\ wtrace[w].url = C1
        /\ Len(wtrace[w].stored) = 1
        /\ wtrace[w].stored[1].error = "skipped non-HTML content: application/pdf"

\* C4: when CanFetch is false for a popped task's URL, processURL issues no
\* GET and takes no permit for it, and the error of the result it persists
\* is exactly "blocked by robots.txt".
C4_RobotsDenied ==
    \A w \in Workers :
        (wtrace[w].url # NoURL /\ wpc[w] # "robots" /\ ~CanFetch(robotsCache, wtrace[w].url)) =>
            /\ wtrace[w].gets = 0
            /\ wtrace[w].permits = 0
            /\ wpc[w] \in {"finalize", "loop", "exited"}
            /\ wpc[w] = "finalize" => wlocal[w].result.error = "blocked by robots.txt"
            /\ \A i \in 1..Len(wtrace[w].stored) :
                  wtrace[w].stored[i].error = "blocked by robots.txt"

\* C4 witness: the result of the denied http://d/p1 has been persisted.
C4_Witness ==
    \E w \in Workers :
        /\ wpc[w] = "loop"
        /\ wtrace[w].url = D1
        /\ ~CanFetch(robotsCache, D1)
        /\ Len(wtrace[w].stored) = 1
        /\ resultsDB[ResultKey(D1, 0)].error = "blocked by robots.txt"
        /\ tokens = 0

\* C10: once no worker is inside processURL, the store's cumulative
\* keywords_found equals the aggregator's keywords_found, the sum of the
\* occurrence counts of the results persisted.
C10_KeywordsAgree ==
    NoneProcessing => smetrics.keywordsFound = metrics.keywordsFound

\* no dead-link worker is inside processLinkAsync
DeadLinkIdle == \A d \in DeadLinkWorkers : dlpc[d] = "idle"

RECURSIVE SumLens(_, _)
\* the sum, over the records of the findings namespace, of the length of a list
SumLens(db, field) ==
    IF DOMAIN db = {} THEN 0
    ELSE LET k == CHOOSE x \in DOMAIN db : TRUE
         IN Len(db[k][field]) + SumLens([x \in DOMAIN db \ {k} |-> db[x]], field)

\* C8: no StoreResult call overwrites the record of an earlier call: the
\* findings namespace holds as many records as StoreResult calls have
\* succeeded.
C8_AppendOnly == Cardinality(DOMAIN resultsDB) = storeCalls

\* C9: when no task is being processed, the aggregator's emails_found,
\* dead_links_found and dead_domains_found equal the sums of the lengths of
\* the emails, dead_links and dead_domains lists over the findings records.
C9_CountersMatchRecords ==
    (NoneProcessing /\ DeadLinkIdle) =>
        /\ metrics.emailsFound = SumLens(resultsDB, "emails")
        /\ metrics.deadLinksFound = SumLens(resultsDB, "deadLinks")
        /\ metrics.deadDomainsFound = SumLens(resultsDB, "deadDomains")

\* the tasks held by the frontier, by the backlog, by a refill between GetURLs
\* and Push, and by a worker between a refused Push and StoreURL
TasksPlaced ==
    {heap[i].task : i \in 1..Len(heap)}
        \cup {UnmarshalTask(urlDB[k]) : k \in DOMAIN urlDB}
        \cup UNION {Range(refillers[r].urls) : r \in Refillers}
        \cup {wlocal[w].spill : w \in {v \in Workers : wpc[v] = "spill"}}

\* C2 (state): the heap never holds more than maxSize tasks, and a Push on a
\* heap of maxSize tasks returns the queue-full error and the same heap.
C2_Bounded ==
    /\ Len(heap) <= maxSize
    /\ Len(heap) = maxSize =>
          \A u \in AllURLs, d \in 0..maxDepth :
              QueuePush(heap, Task(u, d, now)) = [err |-> "queue is full", heap |-> heap]

\* C2 (step): no worker, refill or dashboard step changes a heap of maxSize
\* tasks other than by a Pop.
C2_FullHeapStep == Len(heap) = maxSize => (heap' = heap \/ Len(heap') = maxSize - 1)

\* C2: under every interleaving of the Push calls of workers, refill and
\* dashboard with Pop calls the heap holds at most maxSize tasks, and a Push
\* made when it holds maxSize returns ErrQueueFull and leaves it unchanged.
C2_HeapBounded == []C2_Bounded /\ [][C2_FullHeapStep]_vars

\* C2 witness: the heap is full, a worker's Push has just been refused, and
\* the dashboard has posted a URL.
C2_Witness == Len(heap) = maxSize /\ wpc[1] = "spill" /\ injected = 1

C5_AddedStaysSeen == \A u \in bloomAdded : BloomTest(bloom, u)

\* C5 witness: one worker is about to Test a URL added earlier while the
\* other is between its Test and its Add of another.
C5_Witness ==
    \E w \in Workers, v \in Workers :
        /\ wpc[w] = "expand"
        /\ Head(wlocal[w].links) \in bloomAdded
        /\ wpc[v] = "add"
        /\ Head(wlocal[v].links) \notin bloomAdded

\* the URLs in the frontier, in the backlog or in flight
URLsPresent ==
    {t.url : t \in TasksPlaced} \cup {wlocal[w].task.url : w \in {v \in Workers : Processing(v)}}

\* C6: none of the URLs that link expansion admits is dropped: once the seed's
\* page is processed, and before any other task is popped, the URLs in the
\* frontier, in the backlog or in flight are exactly the seed's valid outlinks
\* that passed the dedup filter, also while the refill started by the seed's
\* Pop runs.
C6_NoneDropped ==
    (pops = 1 /\ NoneProcessing /\ injected = 0) =>
        URLsPresent = bloomAdded \ {config.startURL}

\* C7: the state in which the backlog holds a task, the frontier is empty, no
\* refill runs and none will be started (no worker holds a task, so no Pop
\* can succeed) is not reachable.
C7_BacklogDrains ==
    ~ /\ DOMAIN urlDB # {}
      /\ heap = <<>>
      /\ ~refilling
      /\ \A r \in Refillers : refillers[r].pc = "none"
      /\ NoneProcessing
      /\ injected = 0

\* every crawl worker, refill task and dead-link worker has returned and the
\* store is closed
AllDown ==
    /\ \A w \in Workers : wpc[w] \in {"exited", "none"}
    /\ \A r \in Refillers : refillers[r].pc = "none"
    /\ \A d \in DeadLinkWorkers : dlpc[d] = "exited"
    /\ storeClosed

C20_NoStoreAfterClose == lateStores = 0

C14_CrawlDelayRespected ==
    \A w \in Workers :
        wtrace[w].gets > 0 =>
            wtrace[w].slept >= GetCrawlDelay(robotsCache, GetDomain(wtrace[w].url))

\* C15: every task in the frontier or the backlog carries a valid URL with
\* scheme http or https, whether the seed, link expansion or the dashboard's
\* add-urls put it there.
C15_TasksHaveValidURLs == \A t \in TasksPlaced : IsValidURL(t.url)

\* C16: GetURLs(limit) returns at most limit tasks in ascending key order and
\* removes exactly those from the backlog: the count of the backlog drops by
\* the number returned, every other entry is unchanged, and the findings
\* are untouched.
C16_GetURLsFrame ==
    ret.op = "GetURLs" =>
        LET tasks == ret.tasks
            Pos(u) == CHOOSE i \in 1..Len(KeyOrder) : KeyOrder[i] = u
            taken == {URLKey(tasks[i].url) : i \in 1..Len(tasks)}
        IN /\ Len(tasks) <= ret.limit
           /\ \A i, j \in 1..Len(tasks) : i < j => Pos(tasks[i].url) < Pos(tasks[j].url)
           /\ \A i \in 1..Len(tasks) :
                 /\ URLKey(tasks[i].url) \in DOMAIN ret.before
                 /\ MarshalTask(tasks[i]) = ret.before[URLKey(tasks[i].url)]
           /\ DOMAIN urlDB = DOMAIN ret.before \ taken
           /\ \A k \in DOMAIN urlDB : urlDB[k] = ret.before[k]
           /\ countURLsInDB(urlDB) = countURLsInDB(ret.before) - Len(tasks)
           /\ resultsDB = ret.findings

C16_Witness ==
    /\ ret.op = "GetURLs"
    /\ ret.limit = 2
    /\ Len(ret.tasks) = 2
    /\ countURLsInDB(urlDB) = 2

\* C17: StoreURL overwrites the entry of its URL: storing a task again
\* changes nothing, the backlog holds at most one entry per URL, and its
\* count is the number of distinct URLs stored and not fetched since.
C17_OneEntryPerURL ==
    /\ countURLsInDB(urlDB) = Cardinality(ret.pending)
    /\ \A k1, k2 \in DOMAIN urlDB : k1.url = k2.url => k1 = k2
    /\ ret.op = "StoreURL" =>
          LET task == ret.tasks[1]
          IN /\ URLKey(task.url) \in DOMAIN urlDB
             /\ urlDB[URLKey(task.url)] = MarshalTask(task)
             /\ StoreURL(urlDB, task) = urlDB
             /\ \A k \in DOMAIN ret.before :
                   k # URLKey(task.url) => urlDB[k] = ret.before[k]

C17_Witness ==
    /\ ret.op = "StoreURL"
    /\ URLKey(ret.tasks[1].url) \in DOMAIN ret.before
    /\ ret.before[URLKey(ret.tasks[1].url)].depth # ret.tasks[1].depth
    /\ countURLsInDB(urlDB) = 2

\* C18: Pop on a non-empty frontier removes and returns one task whose
\* priority depth * 1000 + unix seconds is minimal among the tasks held, and
\* removes no other; Pop on an empty frontier returns the queue-empty error
\* and leaves the heap unchanged.
C18_PopReturnsMinimum ==
    ret.op = "Pop" =>
        IF ret.before = <<>>
        THEN ret.err = "queue is empty" /\ heap = <<>>
        ELSE LET t == ret.tasks[1]
                 Rank(x) == x.depth * 1000 + x.timestamp
                 Count(h, x) == Cardinality({i \in 1..Len(h) : h[i].task = x})
             IN /\ ret.err = ""
                /\ \A i \in 1..Len(ret.before) : Rank(t) <= Rank(ret.before[i].task)
                /\ Len(heap) = Len(ret.before) - 1
                /\ \A i \in 1..Len(ret.before) :
                      Count(heap, ret.before[i].task) =
                          Count(ret.before, ret.before[i].task)
                              - (IF ret.before[i].task = t THEN 1 ELSE 0)

C18_Witness ==
    /\ ret.op = "Pop"
    /\ Len(ret.before) = maxSize
    /\ ret.tasks[1] = Task(B1, 0, 0)
    /\ \E i \in 1..Len(heap) : heap[i].task = Task(A1, 0, 0)
    /\ \E i \in 1..Len(heap) : heap[i].task = Task(A1, 0, MaxTime)
    /\ \E i \in 1..Len(heap) : heap[i].task.depth = 1

C18_WitnessEmpty == ret.op = "Pop" /\ ret.before = <<>> /\ ret.err = "queue is empty"

\* C19: no cumulative counter of the aggregator (URLs processed, e-mails,
\* keywords, links checked, dead links, dead domains, errors) ever decreases.
C19_CountersNeverDecrease == [][\A f \in DOMAIN metrics : metrics'[f] >= metrics[f]]_vars

C19_Witness ==
    /\ metrics.urlsProcessed >= 3
    /\ metrics.errors >= 1
    /\ metrics.emailsFound >= 1
    /\ metrics.keywordsFound >= 1
    /\ metrics.deadLinksFound >= 1
    /\ metrics.deadDomainsFound >= 1
    /\ metrics.linksChecked >= 1

PastGuard == {r \in Refillers : refillers[r].pc \in {"size", "get", "push", "end"}}

\* C22: at most one refill goroutine is past the refilling guard at any time,
\* however many goroutines the Pops have spawned, and the refilling flag is
\* set exactly while one is: it is false again once that refill has returned,
\* on every exit path.
C22_OneRefillAtATime ==
    /\ Cardinality(PastGuard) <= 1
    /\ refilling <=> PastGuard # {}

\* a second goroutine, spawned by another Pop, waits at the guard while the
\* first one pushes what it fetched
C22_Witness ==
    \E r, q \in Refillers :
        /\ refillers[r].pc = "push"
        /\ refillers[q].pc = "start"
        /\ refilling

C24_OneTaskPerURL ==
    /\ \A i, j \in DOMAIN heap : heap[i].task.url = heap[j].task.url => i = j
    /\ \A i \in DOMAIN heap, w \in Workers :
            Processing(w) => wlocal[w].task.url # heap[i].task.url
    /\ \A i \in DOMAIN heap, k \in DOMAIN urlDB :
            UnmarshalTask(urlDB[k]).url # heap[i].task.url
    /\ \A k \in DOMAIN urlDB, w \in Workers :
            Processing(w) => wlocal[w].task.url # UnmarshalTask(urlDB[k]).url

\* C25: each pushed task is returned by at most one Pop. A worker receives a
\* task only on a step that is one successful Pop: the task was in the heap,
\* exactly that one occurrence of it leaves the heap, and no other worker
\* receives anything on the step; hence no task in the heap, and no task held
\* by another worker, is the task a worker is processing. Every successful Pop
\* takes the heap down by one item and every step that adds to the heap adds
\* one item and is no Pop, so the Pops never outnumber the Pushes.
C25_PoppedOnce ==
    [][LET Count(h, x) == Cardinality({i \in 1..Len(h) : h[i].task = x})
           Receives(w) == wlocal'[w].task # NoTask /\ wlocal'[w].task # wlocal[w].task
       IN /\ \A w \in Workers : Receives(w) =>
                /\ pops' = pops + 1
                /\ Count(heap, wlocal'[w].task) >= 1
                /\ \A i \in 1..Len(heap) :
                      Count(heap', heap[i].task) =
                          Count(heap, heap[i].task)
                              - (IF heap[i].task = wlocal'[w].task THEN 1 ELSE 0)
                /\ \A v \in Workers \ {w} : wlocal'[v] = wlocal[v]
          /\ pops' # pops =>
                /\ pops' = pops + 1
                /\ Len(heap') = Len(heap) - 1
                /\ \E w \in Workers : Receives(w)
          /\ Len(heap') > Len(heap) => Len(heap') = Len(heap) + 1 /\ pops' = pops
          /\ \A w \in Workers : Processing(w)' =>
                /\ \A i \in DOMAIN heap' : heap'[i].task # wlocal'[w].task
                /\ \A v \in Workers \ {w} :
                      Processing(v)' => wlocal'[v].task # wlocal'[w].task]_vars

\* both workers hold a task they popped while the heap holds more
C25_Witness ==
    /\ \A w \in Workers : wpc[w] = "fetch"
    /\ pops >= 3
    /\ Len(heap) >= 2

C27_NonHTMLIsSkip ==
    [][\A w \in Workers :
          (/\ wpc[w] = "fetch"
           /\ wpc'[w] # "fetch"
           /\ GetOutcome(wlocal[w].task.url) = "nonhtml") =>
              /\ wlocal'[w].result.error = "skipped non-HTML content: application/pdf"
              /\ wlocal'[w].result.statusCode = GetStatus(wlocal[w].task.url)
              /\ wlocal'[w].result.emails = <<>>
              /\ wlocal'[w].result.keywords = NoKeywords
              /\ wlocal'[w].result.newURLs = <<>>
              /\ wlocal'[w].links = <<>>
              /\ linkQueue' = linkQueue
              /\ wpc'[w] = "finalize"
              /\ metrics'.errors = metrics.errors]_vars

\* C28: a task ended by a policy denial (robots.txt disallows the URL, or the
\* wait for a permit is cancelled) has the denial in the error field of the
\* result it stores, and neither the denial nor the storing of the result
\* increments the errors counter of the aggregator or of the store.
C28_DenialIsNoError ==
    [][\A w \in Workers :
          /\ (wpc[w] \in {"robots", "rate"} /\ wpc'[w] = "finalize") =>
                /\ wlocal'[w].result.error
                       = (IF wpc[w] = "robots" THEN "blocked by robots.txt"
                          ELSE "rate limit context cancelled")
                /\ metrics'.errors = metrics.errors
                /\ smetrics'.errors = smetrics.errors
          /\ (/\ wpc[w] = "finalize"
              /\ wpc'[w] # "finalize"
              /\ wlocal[w].result.error
                     \in {"blocked by robots.txt", "rate limit context cancelled"}) =>
                /\ wtrace'[w].stored = <<wlocal[w].result>>
                /\ resultsDB'[ResultKey(wlocal[w].result.url, wlocal[w].result.processedAt)].error
                        = wlocal[w].result.error
                /\ metrics'.errors = metrics.errors
                /\ smetrics'.errors = smetrics.errors]_vars

\* C29: a transport failure of the page GET puts the error text in the
\* result, with status code 0, and increments the aggregator's errors counter
\* by one; the deferred function stores that result and does not increment
\* the counter again; one GET was issued for the task; neither step adds a
\* task to the frontier or to the backlog, the URL of a stored transport
\* failure is in no task held or being processed, and every task has retry
\* count 0.
C29_TransportFailure ==
    [][/\ \A w \in Workers :
            /\ (/\ wpc[w] = "fetch"
                /\ wpc'[w] # "fetch"
                /\ GetOutcome(wlocal[w].task.url) = "transport") =>
                   /\ wlocal'[w].result.error = "Get: dial tcp: no such host"
                   /\ wlocal'[w].result.statusCode = 0
                   /\ metrics'.errors = metrics.errors + 1
                   /\ wpc'[w] = "finalize"
                   /\ heap' = heap /\ urlDB' = urlDB
            /\ (/\ wpc[w] = "finalize"
                /\ wpc'[w] # "finalize"
                /\ wlocal[w].result.error = "Get: dial tcp: no such host") =>
                   /\ wtrace'[w].stored = <<wlocal[w].result>>
                   /\ wtrace'[w].gets = 1
                   /\ metrics'.errors = metrics.errors
                   /\ wpc'[w] = "loop"
                   /\ heap' = heap /\ urlDB' = urlDB
       /\ \A k \in DOMAIN resultsDB' :
            resultsDB'[k].error = "Get: dial tcp: no such host" =>
                /\ resultsDB'[k].url \notin {t.url : t \in TasksPlaced'}
                /\ \A w \in Workers : wlocal'[w].task.url # resultsDB'[k].url
       /\ \A t \in TasksPlaced \cup TasksPlaced' : t.retries = 0
       /\ \A w \in Workers : wlocal[w].task.retries = 0 /\ wlocal'[w].task.retries = 0]_vars

\* a worker is back at its loop having stored the result of a task whose GET
\* failed in transport, counted once
C29_Witness ==
    \E w \in Workers :
        /\ wpc[w] = "loop"
        /\ Len(wtrace[w].stored) = 1
        /\ wtrace[w].stored[1].error = "Get: dial tcp: no such host"
        /\ wtrace[w].stored[1].url = B1
        /\ wtrace[w].gets = 1
        /\ metrics.errors = 1
        /\ \E k \in DOMAIN resultsDB : resultsDB[k] = wtrace[w].stored[1]

C31_ProcessedCountsPrimary ==
    LET finalized == pops - Cardinality({w \in Workers : Processing(w)})
    IN /\ metrics.urlsProcessed = finalized
       /\ smetrics.urlsProcessed = finalized

C33_CheckDeadLinksNonBlocking ==
    /\ [](/\ Len(linkQueue) <= LinkQueueCap
          /\ \A n \in 0..20 :
                numToSample(n) = (IF n = 0 THEN 0
                                  ELSE IF (n * 2) \div 10 = 0 THEN 1
                                  ELSE (n * 2) \div 10)
          /\ \A w \in Workers :
                (wpc[w] = "fetch" /\ GetOutcome(wlocal[w].task.url) = "ok") =>
                    ENABLED Fetch(w))
    /\ [][\A w \in Workers :
            (/\ wpc[w] = "fetch"
             /\ wpc'[w] # "fetch"
             /\ GetOutcome(wlocal[w].task.url) = "ok"
             /\ ChecksDeadLinks) =>
                LET links == ExtractLinks(wlocal[w].task.url)
                    k == numToSample(Len(links))
                    room == LinkQueueCap - Len(linkQueue)
                    taken == IF k <= room THEN k ELSE room
                IN /\ wlocal'[w].result.deadLinks = <<>>
                   /\ wlocal'[w].result.deadDomains = <<>>
                   /\ Len(linkQueue') = Len(linkQueue) + taken
                   /\ SubSeq(linkQueue', 1, Len(linkQueue)) = linkQueue
                   /\ \A i \in (Len(linkQueue) + 1)..Len(linkQueue') :
                         /\ linkQueue'[i].url \in Range(links)
                         /\ linkQueue'[i].sourceURL = wlocal[w].task.url]_vars

\* a page with links is fetched while the dead-link queue is full: the worker
\* goes on to link expansion and the sampled link is dropped
C33_Witness ==
    \E w \in Workers :
        /\ wpc[w] \in {"expand", "add"}
        /\ wlocal[w].task.url = A1
        /\ Len(linkQueue) = LinkQueueCap
        /\ \A i \in 1..Len(linkQueue) : linkQueue[i].sourceURL = Seed

C34_WitnessDomain ==
    /\ \E k \in DOMAIN resultsDB :
          /\ resultsDB[k].deadLinks = <<B1>>
          /\ resultsDB[k].deadDomains = <<"b">>
    /\ metrics.deadDomainsFound = 1

\* C35: the dead-link workers finish the requests already accepted before
\* they exit: once every dead-link worker has returned, the dead-link queue
\* holds no request, each accepted one having been taken and probed.
C35_AcceptedLinksProbed ==
    (\A d \in DeadLinkWorkers : dlpc[d] = "exited") => linkQueue = <<>>

\* C36: in every state the dead-URL cache holds at most 5000 entries and the
\* dead-domain cache at most 1000.
C36_CachesBounded ==
    /\ Cardinality(DOMAIN deadDomainCache) <= 1000
    /\ Cardinality(DOMAIN deadLinkCache) <= 5000

\* C37: a robots.txt fetch that fails or is answered with a status other
\* than 200 does not fail the URL: it stores the negative entry of the host
\* and the worker goes on to the rate limiter without an error. With the
\* negative entry cached, CanFetch is true for every URL of the host, the
\* crawl delay is zero, a check of the host is answered from the cache, and
\* no lookup of a cached host starts a GET. Entries are never dropped.
C37_NegativeRobotsEntry ==
    [][/\ \A h \in DOMAIN robotsCache :
             h \in DOMAIN robotsCache' /\ robotsCache'[h] = robotsCache[h]
       /\ \A h \in DOMAIN robotsCache' :
             robotsCache'[h].nil =>
                 /\ \A u \in AllURLs : u.host = h => CanFetch(robotsCache', u)
                 /\ GetCrawlDelay(robotsCache', h) = 0
       /\ \A w \in Workers :
             LET h == wlocal[w].task.url.host
             IN /\ (wpc[w] = "robots" /\ wpc'[w] = "robotsFetch") =>
                       h \notin DOMAIN robotsCache
                /\ ( /\ wpc[w] = "robotsFetch" /\ wpc'[w] # "robotsFetch"
                     /\ (~RobotsTxt(h).reachable \/ RobotsTxt(h).status # 200) ) =>
                       /\ h \in DOMAIN robotsCache'
                       /\ robotsCache'[h] = NilRobots
                       /\ wpc'[w] = "rate"
                       /\ wlocal'[w].result.error = ""
                /\ ( /\ wpc[w] = "robots" /\ wpc'[w] # "robots"
                     /\ h \in DOMAIN robotsCache /\ robotsCache[h].nil ) =>
                       /\ wpc'[w] = "rate"
                       /\ robotsCache' = robotsCache
                       /\ wlocal'[w].result.error = ""
      ]_vars

\* http://c/x.pdf, found on http://c/, passed its robots check from the
\* negative entry that the check of http://c/ stored for host c
C37_Witness ==
    \E w \in Workers :
        /\ wpc[w] = "rate"
        /\ wlocal[w].task.url = C1
        /\ "c" \in DOMAIN robotsCache
        /\ robotsCache["c"] = NilRobots
        /\ RobotsTxt("c").status = 404

\* C38: no two workers are in the GET of robots.txt of the same host at the
\* same time
C38_OneFetchInFlight ==
    \A w1, w2 \in Workers :
        (w1 # w2 /\ wpc[w1] = "robotsFetch" /\ wpc[w2] = "robotsFetch") =>
            wlocal[w1].task.url.host # wlocal[w2].task.url.host

\* C39: a refill whose GetURLs meets a malformed value among the entries it
\* reads still takes every well-formed entry among them: each is handed to
\* the refill and deleted from the backlog.
C39_MalformedSkipped ==
    [][\A r \in Refillers :
         (refillers[r].pc = "get" /\ refillers'[r].pc # "get" /\ ~storeClosed) =>
             LET keys == KeysInOrder(urlDB)
                 n == IF Len(keys) < refillers[r].needed THEN Len(keys)
                      ELSE refillers[r].needed
             IN \A i \in 1..n :
                    urlDB[keys[i]].json = "URLTask" =>
                        /\ UnmarshalTask(urlDB[keys[i]]) \in Range(refillers'[r].urls)
                        /\ keys[i] \notin DOMAIN urlDB'
      ]_vars

====
